---- MODULE Spec2Model ----
(***************************************************************************)
(* Verification model of ambakick/agi-hack-2025: the podcast generation    *)
(* service (src/backend) and the video generation service (src/video-api). *)
(*                                                                         *)
(* Specifications in this module                                           *)
(*   Spec          file cache and cache endpoints                          *)
(*   SpecDiscovery transcript retrieval of the discovery service           *)
(*   SpecSearch    podcast search of the discovery service                 *)
(*   SpecFaults    discovery service on a cache whose files may fail       *)
(*   SpecCacheFaults  cache operations, files may fail                     *)
(*   SpecPipeline  scene generation and the video-only pipeline            *)
(*   SpecTTS       text chunking of the Google text-to-speech services     *)
(*   SpecSync      audio/video synchronisation                             *)
(*   SpecStitch    video stitching                                         *)
(*   SpecUpload    file upload handler                                     *)
(*   SpecVeo       video generation against the provider                   *)
(*   SpecVoice     voice selection of the speech endpoints                 *)
(*   SpecLocks     threads calling the cache under its two locks           *)
(*   SpecStages    one request of the full pipeline, stage by stage        *)
(*   SpecPoll      the polling loop of video generation, with fairness     *)
(*   SpecGraph     knowledge-graph context from the third-party service    *)
(*   SpecRequests  two requests at a time writing generated media          *)
(*   SpecSnippets  parsing the provider answer of snippet extraction       *)
(*   SpecScript    speech for a whole script, both providers               *)
(* Every specification owns a group of variables; the other groups stay at *)
(* their idle value.                                                       *)
(***************************************************************************)
EXTENDS Integers, Sequences, FiniteSets, TLC

VARIABLES
    \* ---- file cache (src/backend/app/core/cache.py) ----
    disk,                 \* the cache directory tree: <<dir, file name>> -> file content
    search_hashmap,       \* FileCache.search_hashmap: cache key -> file hash
    transcript_hashmap,   \* FileCache.transcript_hashmap: video id -> file hash
    io_faults,            \* TRUE when file operations of the cache may fail
    last,                 \* the last operation of the cache / discovery service and its result
    stored_search,        \* history: <<query, max_results>> -> payload of the last completed set since the last clear
    stored_transcript,    \* history: video id -> transcript of the last completed set since the last clear
    \* ---- scene generation and video-only pipeline ----
    pipe,
    \* ---- text-to-speech chunking ----
    tts,
    \* ---- audio/video synchronisation ----
    sync,
    \* ---- video stitching ----
    stitch,
    \* ---- upload handler ----
    upload,
    \* ---- threads calling the cache, and its two locks ----
    threads

cacheVars == <<disk, search_hashmap, transcript_hashmap, io_faults, last,
               stored_search, stored_transcript>>
vars == <<disk, search_hashmap, transcript_hashmap, io_faults, last,
          stored_search, stored_transcript, pipe, tts, sync, stitch, upload, threads>>

(***************************************************************************)
(* Generic helpers                                                         *)
(***************************************************************************)

\* Python's None and a present value, as one comparable shape.
None == [tag |-> "None", val |-> <<>>]
Some(v) == [tag |-> "Some", val |-> v]
IsNone(o) == o.tag = "None"

\* d[k] = v on a Python dict modelled as a function.
DictSet(d, k, v) == [x \in (DOMAIN d) \cup {k} |-> IF x = k THEN v ELSE d[x]]

\* The empty dict.
EmptyDict == [x \in {} |-> <<>>]

\* d restricted to the keys in S.
Restrict(d, S) == [x \in S |-> d[x]]

Idle == [op |-> "idle"]

(***************************************************************************)
(* Bounds of the cache model                                               *)
(***************************************************************************)

\* queries, max_results values, video ids and payloads the operations draw from
Queries == {"ai", "ai:5"}
MaxResultsSet == {5, 10}
VideoIds == {"v1", "ai:5"}
\* search payloads: lists of at most MaxListLen VideoInfo dicts (a dict is
\* named by its video id)
MaxListLen == 1
ResultLists == {[i \in 1..n |-> "v" \o ToString(i)] : n \in 0..MaxListLen}
\* transcript texts: "" and a non-empty text
Texts == {<<>>, <<"hello">>}

(***************************************************************************)
(* FileCache                                                               *)
(***************************************************************************)

CacheDir == "cache"
SearchCacheDir == "cache/searches"
TranscriptCacheDir == "cache/transcripts"
SearchHashmapFile == <<CacheDir, "search_hashmap.json">>
TranscriptHashmapFile == <<CacheDir, "transcript_hashmap.json">>

\* A file as written by one complete json.dump, and a file left by a failed write.
JsonFile(data) == [valid |-> TRUE, data |-> data]
BrokenFile == [valid |-> FALSE, data |-> <<>>]

\* A cache key that leaves max_results out.
cache_key_query_only(query, max_results) == query \o ":"

\* cache_key = f"{query}:{max_results}"
cache_key(query, max_results) == query \o ":" \o ToString(max_results)

\* hashlib.sha256(key.encode()).hexdigest(): collision-free, so modelled injectively
_hash_key(key) == "sha256(" \o key \o ")"

\* self.search_cache_dir / f"{file_hash}.json"
EntryFile(dir, file_hash) == <<dir, file_hash \o ".json">>

\* dir.glob("*.json")
Glob(d, dir) == {p \in DOMAIN d : p[1] = dir}

\* The file faults a cache operation can meet.
WriteFaults == IF io_faults THEN {"none", "open", "dump", "index_open", "index_dump"} ELSE {"none"}
ReadFaults == IF io_faults THEN {"none", "read"} ELSE {"none"}
ClearFaults == IF io_faults THEN {"none", "unlink"} ELSE {"none"}

\* An index save that writes nothing.
_save_hashmap_skipped(d, index_file, hashmap, fault) == d

\* _save_search_hashmap / _save_transcript_hashmap: rewrite the whole index file;
\* a failure is logged and swallowed.
_save_hashmap(d, index_file, hashmap, fault) ==
    CASE fault = "index_open" -> d
      [] fault = "index_dump" -> DictSet(d, index_file, BrokenFile)
      [] OTHER -> DictSet(d, index_file, JsonFile(hashmap))

\* One half of _load_hashmaps: absent or unreadable index file gives {}.
_load_hashmap(d, index_file) ==
    IF index_file \in DOMAIN d /\ d[index_file].valid THEN d[index_file].data ELSE EmptyDict

\* The body of get_search_results / get_transcript under the namespace lock:
\* index hit, file exists, json.load, then the payload field.
CacheGet(d, hashmap, dir, key, field, fault) ==
    LET cache_file == EntryFile(dir, _hash_key(key)) IN
    IF key \in DOMAIN hashmap /\ cache_file \in DOMAIN d
    THEN IF fault = "read" \/ ~d[cache_file].valid
         THEN None
         ELSE Some(d[cache_file].data[field])
    ELSE None

\* An except clause that lets the exception through.
Reraise(e) == e

\* "except Exception as e: logger.error(...)": the exception ends here
LogAndSwallow(e) == "none"

\* The exception that leaves set_search_results / set_transcript when the
\* write meets fault: every step that can fail is inside a try whose handler
\* only logs ("none": the method returns normally).
CacheSetRaised(fault) == IF fault = "none" THEN "none" ELSE LogAndSwallow(fault)

\* The body of set_search_results / set_transcript under the namespace lock.
\* Returns the new disk and the new in-memory hashmap.
CacheSet(d, hashmap, dir, index_file, key, cache_data, fault) ==
    LET file_hash == _hash_key(key)
        cache_file == EntryFile(dir, file_hash)
        newmap == DictSet(hashmap, key, file_hash)
    IN  CASE fault = "open" -> [disk |-> d, hashmap |-> hashmap]
          [] fault = "dump" -> [disk |-> DictSet(d, cache_file, BrokenFile), hashmap |-> hashmap]
          [] OTHER -> [disk |-> _save_hashmap(DictSet(d, cache_file, JsonFile(cache_data)),
                                              index_file, newmap, fault),
                       hashmap |-> newmap]

\* The sets of files a clear may have unlinked when it stops: any part of the
\* directory when an unlink can fail, the whole directory otherwise.
Unlinked(d, dir) == IF io_faults THEN SUBSET Glob(d, dir) ELSE {Glob(d, dir)}

\* The body of clear_search_cache / clear_transcript_cache under the namespace lock.
\* gone: the files unlinked before a failing unlink (all of them when nothing fails).
CacheClear(d, hashmap, dir, index_file, fault, gone) ==
    IF fault = "unlink"
    THEN [disk |-> Restrict(d, (DOMAIN d) \ gone), hashmap |-> hashmap]
    ELSE [disk |-> _save_hashmap(Restrict(d, (DOMAIN d) \ Glob(d, dir)), index_file, EmptyDict, fault),
          hashmap |-> EmptyDict]

get_search_results(query, max_results) ==
    CacheGet(disk, search_hashmap, SearchCacheDir, cache_key(query, max_results), "results", "none")

get_transcript(video_id) ==
    CacheGet(disk, transcript_hashmap, TranscriptCacheDir, video_id, "transcript", "none")

\* get_stats(): the two entry counts.
get_stats == [search_entries |-> Cardinality(DOMAIN search_hashmap),
              transcript_entries |-> Cardinality(DOMAIN transcript_hashmap)]

SearchEntry(query, results, max_results) ==
    [query |-> query, max_results |-> max_results, cached_at |-> "utcnow", results |-> results]

TranscriptEntry(video_id, transcript) ==
    [video_id |-> video_id, cached_at |-> "utcnow", transcript |-> transcript]

(***************************************************************************)
(* Cache operations as actions (FileCache methods called directly)         *)
(***************************************************************************)

SearchKeys == Queries \X MaxResultsSet

\* history after a set of value under key that met fault
StoredAfter(h, key, value, fault) ==
    [h EXCEPT ![key] = CASE fault = "open" -> @
                         [] fault = "dump" -> None
                         [] OTHER -> Some(value)]

set_search_results(query, results, max_results) ==
    \E fault \in WriteFaults :
       LET key == cache_key(query, max_results)
           r == CacheSet(disk, search_hashmap, SearchCacheDir, SearchHashmapFile, key,
                         SearchEntry(query, results, max_results), fault)
       IN  /\ disk' = r.disk
           /\ search_hashmap' = r.hashmap
           /\ stored_search' = StoredAfter(stored_search, <<query, max_results>>, results, fault)
           /\ last' = [op |-> "set_search_results", query |-> query, max_results |-> max_results,
                       raised |-> CacheSetRaised(fault)]
           /\ UNCHANGED <<transcript_hashmap, stored_transcript, io_faults>>

GetSearchResults(query, max_results) ==
    \E fault \in ReadFaults :
       /\ last' = [op |-> "get_search_results", query |-> query, max_results |-> max_results,
                   ret |-> CacheGet(disk, search_hashmap, SearchCacheDir,
                                    cache_key(query, max_results), "results", fault)]
       /\ UNCHANGED <<disk, search_hashmap, transcript_hashmap, stored_search,
                      stored_transcript, io_faults>>

set_transcript(video_id, transcript) ==
    \E fault \in WriteFaults :
       LET r == CacheSet(disk, transcript_hashmap, TranscriptCacheDir, TranscriptHashmapFile,
                         video_id, TranscriptEntry(video_id, transcript), fault)
       IN  /\ disk' = r.disk
           /\ transcript_hashmap' = r.hashmap
           /\ stored_transcript' = StoredAfter(stored_transcript, video_id, transcript, fault)
           /\ last' = [op |-> "set_transcript", video_id |-> video_id,
                       raised |-> CacheSetRaised(fault)]
           /\ UNCHANGED <<search_hashmap, stored_search, io_faults>>

GetTranscript(video_id) ==
    \E fault \in ReadFaults :
       /\ last' = [op |-> "get_transcript", video_id |-> video_id,
                   ret |-> CacheGet(disk, transcript_hashmap, TranscriptCacheDir,
                                    video_id, "transcript", fault)]
       /\ UNCHANGED <<disk, search_hashmap, transcript_hashmap, stored_search,
                      stored_transcript, io_faults>>

\* FileCache.clear_search_cache as a step on (disk, hashmap)
clear_search_cache(d, hashmap, fault, gone) ==
    CacheClear(d, hashmap, SearchCacheDir, SearchHashmapFile, fault, gone)

\* FileCache.clear_transcript_cache as a step on (disk, hashmap)
clear_transcript_cache(d, hashmap, fault, gone) ==
    CacheClear(d, hashmap, TranscriptCacheDir, TranscriptHashmapFile, fault, gone)

\* history after a clear: nothing is stored unless the clear stopped at a failing unlink
ClearedHistory(h, fault) == IF fault = "unlink" THEN h ELSE [k \in DOMAIN h |-> None]

(***************************************************************************)
(* Cache management endpoints (src/backend/app/api/v1/endpoints/cache.py)  *)
(***************************************************************************)

JBool(b) == [type |-> "bool", v |-> b]
JStr(s) == [type |-> "str", v |-> s]

\* {"success": True, "message": message}
SuccessEnvelope(message) == [success |-> JBool(TRUE), message |-> JStr(message)]

\* The framework validates what a handler returns against its declared return
\* type.  The clear handlers declare Dict[str, str]; the schema layer (the one
\* offering model_dump) takes only strings for str, so a boolean value fails
\* the validation and the request ends as a 500 outside the handler's try.
ServeDictStrStr(body) ==
    IF \A f \in DOMAIN body : body[f].type = "str"
    THEN [status |-> 200, body |-> body]
    ELSE [status |-> 500, body |-> [detail |-> JStr("Internal Server Error")]]

\* DELETE /clear/search
clear_search_cache_endpoint ==
    \E fault \in ClearFaults, gone \in Unlinked(disk, SearchCacheDir) :
       LET r == clear_search_cache(disk, search_hashmap, fault, gone)
           resp == ServeDictStrStr(SuccessEnvelope("Search cache cleared"))
       IN  /\ disk' = r.disk
           /\ search_hashmap' = r.hashmap
           /\ stored_search' = ClearedHistory(stored_search, fault)
           /\ last' = [op |-> "clear_search", status |-> resp.status, body |-> resp.body]
           /\ UNCHANGED <<transcript_hashmap, stored_transcript, io_faults>>

\* DELETE /clear/transcripts
clear_transcript_cache_endpoint ==
    \E fault \in ClearFaults, gone \in Unlinked(disk, TranscriptCacheDir) :
       LET r == clear_transcript_cache(disk, transcript_hashmap, fault, gone)
           resp == ServeDictStrStr(SuccessEnvelope("Transcript cache cleared"))
       IN  /\ disk' = r.disk
           /\ transcript_hashmap' = r.hashmap
           /\ stored_transcript' = ClearedHistory(stored_transcript, fault)
           /\ last' = [op |-> "clear_transcripts", status |-> resp.status, body |-> resp.body]
           /\ UNCHANGED <<search_hashmap, stored_search, io_faults>>

\* DELETE /clear/all: FileCache.clear_all = clear_search_cache(); clear_transcript_cache()
clear_all_cache ==
    \E f1 \in ClearFaults, f2 \in ClearFaults,
       g1 \in Unlinked(disk, SearchCacheDir), g2 \in Unlinked(disk, TranscriptCacheDir) :
       LET r1 == clear_search_cache(disk, search_hashmap, f1, g1)
           r2 == clear_transcript_cache(r1.disk, transcript_hashmap, f2, g2)
           resp == ServeDictStrStr(SuccessEnvelope("All cache cleared"))
       IN  /\ disk' = r2.disk
           /\ search_hashmap' = r1.hashmap
           /\ transcript_hashmap' = r2.hashmap
           /\ stored_search' = ClearedHistory(stored_search, f1)
           /\ stored_transcript' = ClearedHistory(stored_transcript, f2)
           /\ last' = [op |-> "clear_all", status |-> resp.status, body |-> resp.body]
           /\ UNCHANGED io_faults

\* GET /stats (declared Dict[str, Any], which takes any value)
get_cache_stats ==
    /\ last' = [op |-> "get_stats", status |-> 200, ret |-> get_stats]
    /\ UNCHANGED <<disk, search_hashmap, transcript_hashmap, stored_search,
                   stored_transcript, io_faults>>

\* The process restarts: a new FileCache on the same directory (__init__ + _load_hashmaps)
Restart ==
    /\ search_hashmap' = _load_hashmap(disk, SearchHashmapFile)
    /\ transcript_hashmap' = _load_hashmap(disk, TranscriptHashmapFile)
    /\ last' = [op |-> "restart"]
    /\ UNCHANGED <<disk, stored_search, stored_transcript, io_faults>>

(***************************************************************************)
(* Idle values of the other groups, initial state, specification           *)
(***************************************************************************)

OthersIdle == pipe = Idle /\ tts = Idle /\ sync = Idle /\ stitch = Idle /\ upload = Idle /\ threads = Idle
otherVars == <<pipe, tts, sync, stitch, upload, threads>>

CacheInit ==
    /\ disk = EmptyDict
    /\ search_hashmap = EmptyDict
    /\ transcript_hashmap = EmptyDict
    /\ last = Idle
    /\ stored_search = [k \in SearchKeys |-> None]
    /\ stored_transcript = [v \in VideoIds |-> None]

Init == CacheInit /\ io_faults = FALSE /\ OthersIdle

Next ==
    \/ \E q \in Queries, r \in ResultLists, n \in MaxResultsSet :
          set_search_results(q, r, n) /\ UNCHANGED otherVars
    \/ \E q \in Queries, n \in MaxResultsSet : GetSearchResults(q, n) /\ UNCHANGED otherVars
    \/ \E v \in VideoIds, t \in Texts : set_transcript(v, t) /\ UNCHANGED otherVars
    \/ \E v \in VideoIds : GetTranscript(v) /\ UNCHANGED otherVars
    \/ clear_search_cache_endpoint /\ UNCHANGED otherVars
    \/ clear_transcript_cache_endpoint /\ UNCHANGED otherVars
    \/ clear_all_cache /\ UNCHANGED otherVars
    \/ get_cache_stats /\ UNCHANGED otherVars
    \/ Restart /\ UNCHANGED otherVars

Spec == Init /\ [][Next]_vars

(***************************************************************************)
(* Transcript discovery (src/backend/app/services/youtube.py)              *)
(***************************************************************************)

\* longest video_ids list of a batch request
MaxBatch == 2

\* description[:1000]
DescriptionLimit == 1000

Min(a, b) == IF a < b THEN a ELSE b
Range(seq) == {seq[i] : i \in 1..Len(seq)}

\* ' '.join(parts)
RECURSIVE Join(_)
Join(parts) ==
    IF Len(parts) = 0 THEN <<>>
    ELSE IF Len(parts) = 1 THEN <<parts[1]>>
    ELSE <<parts[1], " ">> \o Join(Tail(parts))

\* Python truthiness of an Optional[str]
Truthy(o) == o.tag = "Some" /\ o.val # <<>>

\* What the platform answers for one video id during one call: the primary
\* transcript API (segments, or disabled / not found / any other failure) and
\* the page-scraping method (a text or None).
TranscriptOutcomes ==
    { [primary |-> "ok", segments |-> <<"hello", "world">>, secondary |-> None],
      [primary |-> "ok", segments |-> <<>>, secondary |-> None],
      [primary |-> "disabled", segments |-> <<>>, secondary |-> Some(<<"cc">>)],
      [primary |-> "error", segments |-> <<>>, secondary |-> Some(<<"cc">>)],
      [primary |-> "error", segments |-> <<>>, secondary |-> None] }

\* The answers the platform can give for a video id: "v1" has captions that
\* one of the methods may deliver, the other id has none to deliver.
PlatformOutcomes(video_id) ==
    IF video_id = "v1"
    THEN {o \in TranscriptOutcomes :
             (o.primary = "ok" /\ o.segments # <<>>) \/ o.primary = "error"}
    ELSE {o \in TranscriptOutcomes :
             o.primary = "disabled" \/ (o.segments = <<>> /\ IsNone(o.secondary))}

\* The metadata lookup of a batch: it fails, or lists every requested id.
DetailOutcomes == {"error", "found"}

\* Title and description the platform holds for a video.
PlatformTitle(video_id) == "Title " \o video_id
PlatformDescription(video_id) == IF video_id = "v1" THEN <<"about", " ", "ai">> ELSE <<>>

\* YouTubeService.get_transcript on the cache state (d, hashmap, stored):
\* cache, then the primary API, then (only after a failure other than
\* disabled / not found) the page-scraping method.  calls lists the transcript
\* sources contacted; raised is the exception leaving the call ("none": it
\* returns).
YouTubeService_get_transcript(d, hashmap, stored, video_id, o, fault) ==
    LET cached == CacheGet(d, hashmap, TranscriptCacheDir, video_id, "transcript", "none")
        put(text) == CacheSet(d, hashmap, TranscriptCacheDir, TranscriptHashmapFile,
                              video_id, TranscriptEntry(video_id, text), fault)
        keep(text) == StoredAfter(stored, video_id, text, fault)
        miss(calls) == [ret |-> None, disk |-> d, hashmap |-> hashmap, stored |-> stored,
                        how |-> "failed", calls |-> calls, raised |-> "none"]
        fetched(text, how, calls) ==
            LET w == put(text)
            IN  [ret |-> Some(text), disk |-> w.disk, hashmap |-> w.hashmap, stored |-> keep(text),
                 how |-> how, calls |-> calls, raised |-> "none"]
    IN  IF ~IsNone(cached)
        THEN [ret |-> cached, disk |-> d, hashmap |-> hashmap, stored |-> stored, how |-> "cache",
              calls |-> <<>>, raised |-> "none"]
        ELSE IF o.primary = "ok"
        THEN IF CacheSetRaised(fault) # "none"
             THEN \* the exception of the cache write falls into "except Exception" and the
                  \* page-scraping method is tried
                  IF Truthy(o.secondary)
                  THEN [fetched(o.secondary.val, "secondary", <<"api", "timedtext">>)
                           EXCEPT !.raised = CacheSetRaised(fault)]
                  ELSE [fetched(Join(o.segments), "failed", <<"api", "timedtext">>)
                           EXCEPT !.ret = None]
             ELSE fetched(Join(o.segments), "primary", <<"api">>)
        ELSE IF o.primary \in {"disabled", "not_found"}
        THEN miss(<<"api">>)
        ELSE IF Truthy(o.secondary)
        THEN [fetched(o.secondary.val, "secondary", <<"api", "timedtext">>)
                 EXCEPT !.raised = CacheSetRaised(fault)]
        ELSE miss(<<"api", "timedtext">>)

\* _generate_fallback_transcript(video_id, title, description), stripped
_generate_fallback_transcript(video_id, title, description) ==
    <<"Welcome to this podcast episode about ", title, ".">>
    \o (IF description # <<>>
        THEN SubSeq(description, 1, Min(Len(description), DescriptionLimit))
        ELSE <<"This episode covers important insights and discussions.">>)
    \o <<"Thank you for listening to this episode.">>

\* dict.get(key, default)
DictGet(dct, key, default) == IF key \in DOMAIN dct THEN dct[key] ELSE default

\* A batch that hands the fallback text out without storing it.
KeepFallbackUncached(d, hashmap, video_id, fallback, fault) ==
    [disk |-> d, hashmap |-> hashmap]

\* "Cache the fallback transcript too": cache.set_transcript(video_id, transcript_text)
CacheFallback(d, hashmap, video_id, fallback, fault) ==
    CacheSet(d, hashmap, TranscriptCacheDir, TranscriptHashmapFile,
             video_id, TranscriptEntry(video_id, fallback), fault)

\* A batch loop body that gives up on an id without a transcript.
BatchStepNoFallback(st, video_id, o, video_details, languages, fault) ==
    LET g == YouTubeService_get_transcript(st.disk, st.hashmap, st.stored, video_id, o, fault)
        title == IF video_id \in DOMAIN video_details
                 THEN video_details[video_id].title ELSE "Video " \o video_id
    IN  [transcripts |-> IF Truthy(g.ret)
                         THEN Append(st.transcripts,
                                     [video_id |-> video_id, title |-> title,
                                      transcript |-> g.ret.val,
                                      language |-> IF languages # <<>> THEN languages[1] ELSE "en",
                                      duration_seconds |-> 600])
                         ELSE st.transcripts,
         disk |-> g.disk, hashmap |-> g.hashmap, stored |-> g.stored,
         how |-> Append(st.how, g.how), calls |-> st.calls \o g.calls,
         fresh |-> Append(st.fresh, g.ret),
         failed_count |-> st.failed_count, raised |-> g.raised]

\* One iteration of the loop of get_transcripts_batch.
BatchStep(st, video_id, o, video_details, languages, fault) ==
    LET g == YouTubeService_get_transcript(st.disk, st.hashmap, st.stored, video_id, o, fault)
        failed == ~Truthy(g.ret)
        details == DictGet(video_details, video_id, EmptyDict)
        title == DictGet(details, "title", "Video " \o video_id)
        description == DictGet(details, "description", <<>>)
        fallback == _generate_fallback_transcript(video_id, title, description)
        transcript_text == IF failed THEN fallback ELSE g.ret.val
        put == CacheFallback(g.disk, g.hashmap, video_id, fallback, fault)
        raised == IF g.raised # "none" THEN g.raised
                  ELSE IF failed THEN CacheSetRaised(fault) ELSE "none"
    IN  [transcripts |-> IF raised = "none" /\ transcript_text # <<>>
                         THEN Append(st.transcripts,
                                     [video_id |-> video_id,
                                      title |-> DictGet(DictGet(video_details, video_id, EmptyDict),
                                                        "title", "Video " \o video_id),
                                      transcript |-> transcript_text,
                                      language |-> IF languages # <<>> THEN languages[1] ELSE "en",
                                      duration_seconds |-> 600])
                         ELSE st.transcripts,
         disk |-> IF failed /\ g.raised = "none" THEN put.disk ELSE g.disk,
         hashmap |-> IF failed /\ g.raised = "none" THEN put.hashmap ELSE g.hashmap,
         stored |-> IF failed /\ g.raised = "none"
                    THEN StoredAfter(g.stored, video_id, fallback, fault) ELSE g.stored,
         how |-> Append(st.how, IF failed THEN "fallback" ELSE g.how),
         calls |-> st.calls \o g.calls,
         fresh |-> Append(st.fresh, Some(transcript_text)),
         failed_count |-> st.failed_count + (IF failed THEN 1 ELSE 0),
         raised |-> raised]

\* The loop over video_ids; an exception ends it.
RECURSIVE BatchLoop(_, _, _, _, _, _)
BatchLoop(st, video_ids, outcomes, video_details, languages, faults) ==
    IF video_ids = <<>> \/ st.raised # "none" THEN st
    ELSE BatchLoop(BatchStep(st, Head(video_ids), outcomes[Head(video_ids)],
                             video_details, languages, faults[Head(video_ids)]),
                   Tail(video_ids), outcomes, video_details, languages, faults)

\* YouTubeService.get_transcripts_batch(video_ids, languages)
get_transcripts_batch(video_ids, languages) ==
    \E outcomes \in {f \in [Range(video_ids) -> TranscriptOutcomes] :
                          \A v \in Range(video_ids) : f[v] \in PlatformOutcomes(v)},
       det \in DetailOutcomes,
       faults \in [Range(video_ids) -> WriteFaults] :
       LET video_details ==
               IF det = "found"
               THEN [v \in Range(video_ids) |->
                        [title |-> PlatformTitle(v), description |-> PlatformDescription(v)]]
               ELSE EmptyDict
           r == BatchLoop([transcripts |-> <<>>, disk |-> disk, hashmap |-> transcript_hashmap,
                           stored |-> stored_transcript, how |-> <<>>, calls |-> <<>>,
                           fresh |-> <<>>, failed_count |-> 0, raised |-> "none"],
                          video_ids, outcomes, video_details, languages, faults)
       IN  /\ disk' = r.disk
           /\ transcript_hashmap' = r.hashmap
           /\ stored_transcript' = r.stored
           /\ last' = [op |-> "get_transcripts_batch", video_ids |-> video_ids,
                       ret |-> r.transcripts, how |-> r.how, calls |-> r.calls,
                       fresh |-> r.fresh, raised |-> r.raised,
                       write_failed |-> \E i \in 1..Len(video_ids) : faults[video_ids[i]] # "none"]
           /\ UNCHANGED <<search_hashmap, stored_search, io_faults>>

\* YouTubeService.get_transcript(video_id) called on its own
ServiceGetTranscript(video_id) ==
    \E o \in PlatformOutcomes(video_id), fault \in WriteFaults :
       LET g == YouTubeService_get_transcript(disk, transcript_hashmap, stored_transcript,
                                              video_id, o, fault)
       IN  /\ disk' = g.disk
           /\ transcript_hashmap' = g.hashmap
           /\ stored_transcript' = g.stored
           /\ last' = [op |-> "service_get_transcript", video_id |-> video_id,
                       ret |-> g.ret, how |-> g.how, calls |-> g.calls,
                       primary |-> o.primary, secondary |-> o.secondary,
                       fresh |-> IF o.primary = "ok" THEN Some(Join(o.segments))
                                 ELSE IF o.primary = "error" /\ Truthy(o.secondary)
                                 THEN o.secondary ELSE None,
                       raised |-> g.raised, write_failed |-> fault # "none"]
           /\ UNCHANGED <<search_hashmap, stored_search, io_faults>>

\* the video_ids lists of batch requests: non-empty, at most MaxBatch long
BatchInputs == UNION {[1..n -> VideoIds] : n \in 1..MaxBatch}

\* language codes of search requests
Languages == {"en", "es"}

\* What the platform answers to the search call: a failure, or the ids found.
SearchOutcomes == {<<"error">>} \cup {<<"ids", r>> : r \in ResultLists}

\* VideoInfo(**video) and video.model_dump(): a VideoInfo of string and integer
\* fields and its dict
VideoInfo(video) == [video_id |-> video]
model_dump(info) == info.video_id

\* A search that goes on to the metadata call whatever the ids.
NoShortCircuit(video_ids) == FALSE

\* "if not video_ids: return []"
EmptySearchReturns(video_ids) == video_ids = <<>>

\* A lookup that keeps the results of each language apart.
CachedQueryPerLanguage(query, language) == query \o "@" \o language

\* cache.get_search_results(query, max_results) and cache.set_search_results(
\* query, ..., max_results): the language is not handed to the cache
CachedQuery(query, language) == query

\* YouTubeService.search_podcasts(query, max_results, language)
search_podcasts(query, max_results, language) ==
    \E so \in SearchOutcomes, det \in DetailOutcomes, fault \in WriteFaults :
       LET cached_results == get_search_results(CachedQuery(query, language), max_results)
           request == [op |-> "search_podcasts", query |-> query, max_results |-> max_results,
                       language |-> language,
                       \* history: the search_podcasts call this one directly
                       \* follows, if that call cached a result
                       previous |-> IF /\ last.op = "search_podcasts" /\ last.how = "search"
                                       /\ last.raised = "none" /\ ~last.write_failed
                                       /\ last.ret # <<>>
                                    THEN [query |-> last.query, max_results |-> last.max_results,
                                          language |-> last.language, how |-> last.how,
                                          ret |-> last.ret]
                                    ELSE Idle]
           videos == [i \in 1..Len(so[2]) |-> VideoInfo(so[2][i])]
           put == CacheSet(disk, search_hashmap, SearchCacheDir, SearchHashmapFile,
                           cache_key(CachedQuery(query, language), max_results),
                           SearchEntry(query, [i \in 1..Len(videos) |-> model_dump(videos[i])],
                                       max_results),
                           fault)
           same == /\ UNCHANGED <<disk, search_hashmap, stored_search>>
       IN  /\ UNCHANGED <<transcript_hashmap, stored_transcript, io_faults>>
           /\ IF ~IsNone(cached_results)
              THEN /\ last' = request @@
                              [how |-> "cache", calls |-> <<>>, raised |-> "none",
                               ret |-> [i \in 1..Len(cached_results.val) |->
                                           VideoInfo(cached_results.val[i])],
                               write_failed |-> FALSE]
                   /\ same
              ELSE IF so[1] = "error"
              THEN /\ last' = request @@
                              [how |-> "search", calls |-> <<"search.list">>, raised |-> "error",
                               ret |-> <<>>, write_failed |-> FALSE]
                   /\ same
              ELSE IF EmptySearchReturns(so[2])
              THEN /\ last' = request @@
                              [how |-> "search", calls |-> <<"search.list">>, raised |-> "none",
                               ret |-> <<>>, fresh |-> <<>>, video_ids |-> so[2],
                               write_failed |-> FALSE]
                   /\ same
              ELSE IF det = "error"
              THEN /\ last' = request @@
                              [how |-> "search", calls |-> <<"search.list", "videos.list">>,
                               raised |-> "error", ret |-> <<>>, video_ids |-> so[2],
                               write_failed |-> FALSE]
                   /\ same
              ELSE /\ last' = request @@
                              [how |-> "search", calls |-> <<"search.list", "videos.list">>,
                               raised |-> CacheSetRaised(fault), ret |-> videos,
                               fresh |-> videos, video_ids |-> so[2],
                               write_failed |-> fault # "none"]
                   /\ disk' = put.disk
                   /\ search_hashmap' = put.hashmap
                   /\ stored_search' = StoredAfter(stored_search, <<query, max_results>>,
                                                   [i \in 1..Len(videos) |-> model_dump(videos[i])],
                                                   fault)

NextDiscovery ==
    \/ \E ids \in BatchInputs : get_transcripts_batch(ids, <<"en">>) /\ UNCHANGED otherVars
    \/ \E v \in VideoIds : ServiceGetTranscript(v) /\ UNCHANGED otherVars
    \/ clear_transcript_cache_endpoint /\ UNCHANGED otherVars

SpecDiscovery == Init /\ [][NextDiscovery]_vars

(***************************************************************************)
(* The cache and the discovery service on a file system whose operations   *)
(* may fail                                                                *)
(***************************************************************************)

\* the keys the runs with file faults work on
FaultQueries == {"ai"}
FaultMaxResults == {5}
FaultVideoIds == {"v1"}
FaultBatchInputs == {[i \in 1..n |-> "v1"] : n \in 1..MaxBatch}

InitFaults == CacheInit /\ io_faults = TRUE /\ OthersIdle

\* the cache operations called directly
NextCacheFaults ==
    \/ \E q \in FaultQueries, r \in ResultLists, n \in FaultMaxResults :
          set_search_results(q, r, n) /\ UNCHANGED otherVars
    \/ \E q \in FaultQueries, n \in FaultMaxResults : GetSearchResults(q, n) /\ UNCHANGED otherVars
    \/ \E v \in FaultVideoIds, t \in Texts : set_transcript(v, t) /\ UNCHANGED otherVars
    \/ \E v \in FaultVideoIds : GetTranscript(v) /\ UNCHANGED otherVars
    \/ clear_search_cache_endpoint /\ UNCHANGED otherVars
    \/ clear_transcript_cache_endpoint /\ UNCHANGED otherVars
    \/ clear_all_cache /\ UNCHANGED otherVars
    \/ get_cache_stats /\ UNCHANGED otherVars
    \/ Restart /\ UNCHANGED otherVars

SpecCacheFaults == InitFaults /\ [][NextCacheFaults]_vars

\* the discovery service, whose functions write to the cache
NextFaults ==
    \/ \E q \in FaultQueries, n \in FaultMaxResults :
          search_podcasts(q, n, "en") /\ UNCHANGED otherVars
    \/ \E v \in FaultVideoIds : ServiceGetTranscript(v) /\ UNCHANGED otherVars
    \/ \E ids \in FaultBatchInputs : get_transcripts_batch(ids, <<"en">>) /\ UNCHANGED otherVars

SpecFaults == InitFaults /\ [][NextFaults]_vars

NextSearch ==
    \/ \E q \in Queries, n \in MaxResultsSet, l \in Languages :
          search_podcasts(q, n, l) /\ UNCHANGED otherVars
    \/ clear_search_cache_endpoint /\ UNCHANGED otherVars

SpecSearch == Init /\ [][NextSearch]_vars

(***************************************************************************)
(* Scene generation (src/video-api/app/services/scene_generator.py) and    *)
(* the video-only pipeline (src/backend/app/api/v1/video.py)               *)
(***************************************************************************)

\* most snippets / scenes one provider answer holds
MaxScenes == 2

\* SceneDescription.duration default, also generate_scenes' default scene_duration
DefaultSceneDuration == 8

\* the duration the video-only pipeline forces on its single scene
ForcedClipDuration == 15

\* durations (seconds) a provider answer may report for a scene; 0 stands for
\* an answer that leaves the field out
ProviderDurations == {0, 3, 8, 20}
SceneDurations == {5, 8}

SnippetLists == {[i \in 1..n |-> [text |-> "snippet " \o ToString(i)]] : n \in 0..MaxScenes}

\* The scenes of a parsed provider answer: scene i visualises snippet text i
\* and reports some duration.
ProviderSceneLists ==
    UNION {[1..n -> ProviderDurations] : n \in 0..MaxScenes}

\* SceneDescription(**scene): the duration defaults to 8.0 when absent
SceneDescription(scene_number, reported) ==
    [scene_number |-> scene_number,
     transcript_text |-> "snippet " \o ToString(scene_number),
     visual_prompt |-> "Cinematic lighting, photorealistic 4k, vertical 9:16 aspect ratio.",
     duration |-> IF reported = 0 THEN DefaultSceneDuration ELSE reported]

\* A scene left with the duration the provider reported.
KeepProviderDuration(scene, scene_duration) == scene

\* scene.duration = scene_duration
OverwriteDuration(scene, scene_duration) == [scene EXCEPT !.duration = scene_duration]

\* SceneGenerator.generate_scenes(snippets, scene_duration) given the provider
\* answer: parsed = FALSE is an answer that is not JSON (ValueError).
generate_scenes(snippets, scene_duration, parsed, reported) ==
    IF ~parsed THEN [ok |-> FALSE, scenes |-> <<>>, total_duration |-> 0]
    ELSE LET scenes == [i \in 1..Len(reported) |->
                           OverwriteDuration(SceneDescription(i, reported[i]), scene_duration)]
         IN  [ok |-> TRUE, scenes |-> scenes, total_duration |-> Len(scenes) * scene_duration]

\* SceneGenerator.generate_scenes called on its own
GenerateScenes(snippets, scene_duration) ==
    \E parsed \in BOOLEAN, reported \in ProviderSceneLists :
       /\ pipe' = [op |-> "generate_scenes", snippets |-> snippets,
                   scene_duration |-> scene_duration, reported |-> reported,
                   ret |-> generate_scenes(snippets, scene_duration, parsed, reported)]

RECURSIVE SumDurations(_)
SumDurations(scenes) ==
    IF scenes = <<>> THEN 0 ELSE Head(scenes).duration + SumDurations(Tail(scenes))

\* VeoService.generate_video: the VideoScene of one finished generation
VideoSceneOf(scene, output_filename) ==
    [scene_number |-> scene.scene_number, file_path |-> "./video_output/" \o output_filename,
     duration |-> scene.duration, transcript_text |-> scene.transcript_text]

\* VeoService.generate_videos(scenes) of the podcast service (chaining
\* variant); generated[i] tells whether the i-th provider generation succeeds.
veo_generate_videos(scenes, generated) ==
    IF scenes = <<>> \/ \E i \in 1..Len(scenes) : ~generated[i]
    THEN [ok |-> FALSE, video_scenes |-> <<>>, total_duration |-> 0]
    ELSE LET first_video == VideoSceneOf(scenes[1], "scene_" \o ToString(scenes[1].scene_number) \o ".mp4")
             n == Len(scenes)
             final_video == VideoSceneOf(scenes[n],
                               "extended_scene_" \o ToString(scenes[n].scene_number) \o ".mp4")
         IN  [ok |-> TRUE,
              video_scenes |-> IF n > 1 THEN <<[final_video EXCEPT !.scene_number = 1]>>
                               ELSE <<first_video>>,
              total_duration |-> SumDurations(scenes)]

\* Settings.max_scene_duration, seconds (no code reads it)
max_scene_duration == 8

\* The pipeline handing every generated scene on unchanged.
KeepAllScenes(scenes) == scenes

\* scenes = scenes[:1]; scenes[0].duration = 15
ForceSingleClip(scenes) == <<[scenes[1] EXCEPT !.duration = ForcedClipDuration]>>

Error500 == [detail |-> "error"]

\* POST /api/v1/generate-video of the podcast service (video-only pipeline).
\* calls lists the services the handler invoked, in order.
generate_video(max_snippets) ==
    \E extracted \in BOOLEAN, snippets \in SnippetLists,
       parsed \in BOOLEAN, reported \in ProviderSceneLists, veo_ok \in BOOLEAN :
       LET requested == IF max_snippets = 0 THEN 1 ELSE max_snippets
           scenes_response == generate_scenes(snippets, DefaultSceneDuration, parsed, reported)
           scenes == ForceSingleClip(scenes_response.scenes)
           videos_response == veo_generate_videos(scenes, [i \in 1..Len(scenes) |-> veo_ok])
           base == [op |-> "generate_video", max_snippets |-> requested,
                    scenes_generated |-> 0, veo_input |-> <<>>]
       IN  /\ pipe' =
                IF ~extracted
                THEN base @@ [status |-> 500, body |-> Error500,
                              calls |-> <<"extract_snippets">>]
                ELSE IF ~scenes_response.ok \/ scenes_response.scenes = <<>>
                THEN base @@ [status |-> 500, body |-> Error500,
                              calls |-> <<"extract_snippets", "generate_scenes">>]
                ELSE IF ~videos_response.ok \/ videos_response.video_scenes = <<>>
                THEN [base EXCEPT !.scenes_generated = Len(scenes_response.scenes),
                                  !.veo_input = scenes]
                     @@ [status |-> 500, body |-> Error500,
                         calls |-> <<"extract_snippets", "generate_scenes", "generate_videos">>]
                ELSE [base EXCEPT !.scenes_generated = Len(scenes_response.scenes),
                                  !.veo_input = scenes]
                     @@ [status |-> 200,
                         body |-> [snippets |-> snippets,
                                   scenes |-> scenes,
                                   video_scenes |-> videos_response.video_scenes,
                                   audio_scenes |-> <<>>,
                                   stitched_video_path |-> None,
                                   final_video_path |-> Some(videos_response.video_scenes[1].file_path),
                                   total_duration |-> ForcedClipDuration],
                         calls |-> <<"extract_snippets", "generate_scenes", "generate_videos">>]

(***************************************************************************)
(* Video generation against the provider's long-running operations         *)
(* (src/backend/app/services/veo_service.py,                               *)
(*  src/video-api/app/services/veo_service.py)                             *)
(***************************************************************************)

\* the generated_videos lists a provider response may carry
GeneratedVideoLists == {<<>>, <<"video_a">>, <<"video_a", "video_b">>}

\* The operation as the polling loop leaves it: still not done when the wait
\* ran out, or done with either an error (and no response) or a response
\* (possibly absent, possibly with no videos).  A long-running operation
\* carries an error or a response, never both.
Operations ==
    {[done |-> FALSE, error |-> FALSE, response |-> None],
     [done |-> TRUE, error |-> TRUE, response |-> None],
     [done |-> TRUE, error |-> FALSE, response |-> None]}
    \cup {[done |-> TRUE, error |-> FALSE, response |-> Some(v)] : v \in GeneratedVideoLists}

\* VeoService._poll_operation of the podcast service: the exception it raises
_poll_operation(operation) ==
    IF ~operation.done THEN "TimeoutError"
    ELSE IF operation.error THEN "RuntimeError"
    ELSE "none"

\* VeoService._poll_operation of the video service: operation.error is not read
_poll_operation_video_api(operation) ==
    IF ~operation.done THEN "TimeoutError" ELSE "none"

\* VeoService._get_video_file_from_operation
_get_video_file_from_operation(operation) ==
    IF ~Truthy(operation.response) THEN [raised |-> "ValueError", video_file |-> None]
    ELSE IF operation.response.val = <<>> THEN [raised |-> "ValueError", video_file |-> None]
    ELSE [raised |-> "none",
          video_file |-> IF operation.response.val[1] = "None" THEN None
                         ELSE Some(operation.response.val[1])]

\* A download that writes whatever the operation holds, without looking.
_download_unchecked(operation, output_path, files, download_ok) ==
    IF ~download_ok THEN [raised |-> "DownloadError", files |-> files, path |-> None]
    ELSE [raised |-> "none", files |-> files \cup {output_path}, path |-> Some(output_path)]

\* VeoService._download_video (the same in both services): files is the set
\* of clip files on disk, download_ok tells whether client.files.download
\* delivers the bytes.
_download_video(operation, output_path, files, download_ok) ==
    IF ~Truthy(operation.response) THEN [raised |-> "ValueError", files |-> files, path |-> None]
    ELSE IF operation.response.val = <<>>
    THEN [raised |-> "ValueError", files |-> files, path |-> None]
    ELSE IF ~download_ok THEN [raised |-> "DownloadError", files |-> files, path |-> None]
    ELSE [raised |-> "none", files |-> files \cup {output_path}, path |-> Some(output_path)]

\* the arguments of client.models.generate_videos
GenerateVideosCall(scene, previous_video_file) ==
    [prompt |-> scene.transcript_text, video |-> previous_video_file]

\* VeoService.generate_video of the podcast service
backend_generate_video(scene, output_filename, previous_video_file, operation, files, download_ok) ==
    LET output_path == "./video_output/" \o output_filename
        call == GenerateVideosCall(scene, previous_video_file)
        polled == _poll_operation(operation)
        video_file == _get_video_file_from_operation(operation)
        downloaded == _download_video(operation, output_path, files, download_ok)
        failed(e) == [raised |-> e, ret |-> None, files |-> files, call |-> call]
    IN  IF polled # "none" THEN failed(polled)
        ELSE IF video_file.raised # "none" THEN failed(video_file.raised)
        ELSE IF downloaded.raised # "none" THEN failed(downloaded.raised)
        ELSE [raised |-> "none",
              ret |-> Some(VideoSceneOf(scene, output_filename)
                           @@ [video_file |-> video_file.video_file]),
              files |-> downloaded.files, call |-> call]

\* VeoService.generate_video of the video service
videoapi_generate_video(scene, output_filename, operation, files, download_ok) ==
    LET output_path == "./video_output/" \o output_filename
        call == GenerateVideosCall(scene, None)
        polled == _poll_operation_video_api(operation)
        downloaded == _download_video(operation, output_path, files, download_ok)
        failed(e) == [raised |-> e, ret |-> None, files |-> files, call |-> call]
    IN  IF polled # "none" THEN failed(polled)
        ELSE IF downloaded.raised # "none" THEN failed(downloaded.raised)
        ELSE [raised |-> "none", ret |-> Some(VideoSceneOf(scene, output_filename)),
              files |-> downloaded.files, call |-> call]

\* output_filename = f"scene_{scene.scene_number}.mp4"
DefaultFilename(scene) == "scene_" \o ToString(scene.scene_number) \o ".mp4"

\* the scene lists handed to video generation
SceneLists ==
    UNION {{[i \in 1..n |-> OverwriteDuration(SceneDescription(i, 0), d[i])] :
               d \in [1..n -> SceneDurations]} : n \in 0..MaxScenes}

\* The loop of generate_videos (video service): st holds the clips made so
\* far; the first generation that raises ends the loop.
RECURSIVE GenerateLoop(_, _, _, _, _)
GenerateLoop(st, scenes, operations, download_ok, i) ==
    IF i > Len(scenes) \/ st.raised # "none" THEN st
    ELSE LET g == videoapi_generate_video(scenes[i], DefaultFilename(scenes[i]),
                                          operations[i], st.files, download_ok)
         IN  GenerateLoop([raised |-> g.raised,
                           video_scenes |-> IF g.raised = "none"
                                            THEN Append(st.video_scenes, g.ret.val)
                                            ELSE st.video_scenes,
                           files |-> g.files,
                           calls |-> Append(st.calls, g.call)],
                          scenes, operations, download_ok, i + 1)

\* A generate_videos that hands back only the last clip.
videoapi_generate_videos_last(scenes, operations, download_ok) ==
    LET st == GenerateLoop([raised |-> "none", video_scenes |-> <<>>, files |-> {},
                            calls |-> <<>>], scenes, operations, download_ok, 1)
        n == Len(st.video_scenes)
    IN  IF st.raised # "none"
        THEN [raised |-> st.raised, ret |-> None, files |-> st.files, calls |-> st.calls]
        ELSE [raised |-> "none",
              ret |-> Some([video_scenes |-> IF n > 1 THEN <<st.video_scenes[n]>>
                                             ELSE st.video_scenes,
                            total_duration |-> SumDurations(st.video_scenes)]),
              files |-> st.files, calls |-> st.calls]

\* VeoService.generate_videos of the video service (independent clips)
videoapi_generate_videos(scenes, operations, download_ok) ==
    LET st == GenerateLoop([raised |-> "none", video_scenes |-> <<>>, files |-> {},
                            calls |-> <<>>], scenes, operations, download_ok, 1)
    IN  IF st.raised # "none"
        THEN [raised |-> st.raised, ret |-> None, files |-> st.files, calls |-> st.calls]
        ELSE [raised |-> "none",
              ret |-> Some([video_scenes |-> st.video_scenes,
                            total_duration |-> SumDurations(st.video_scenes)]),
              files |-> st.files, calls |-> st.calls]

\* one generate_video call of either service
VeoGenerateVideo(variant) ==
    \E scenes \in SceneLists \ {<<>>}, operation \in Operations, download_ok \in BOOLEAN,
       previous \in {None, Some("video_a")} :
       LET scene == scenes[Len(scenes)]
           g == IF variant = "backend"
                THEN backend_generate_video(scene, DefaultFilename(scene), previous,
                                            operation, {}, download_ok)
                ELSE videoapi_generate_video(scene, DefaultFilename(scene), operation,
                                             {}, download_ok)
       IN  /\ variant = "video-api" => previous = None
           /\ pipe' = [op |-> "veo_generate_video", variant |-> variant, scene |-> scene,
                       operation |-> operation, raised |-> g.raised, ret |-> g.ret,
                       files |-> g.files, call |-> g.call]

\* one generate_videos call of the video service
VeoGenerateVideos ==
    \E scenes \in SceneLists, download_ok \in BOOLEAN :
       \E operations \in [1..Len(scenes) -> Operations] :
          LET g == videoapi_generate_videos(scenes, operations, download_ok)
          IN  pipe' = [op |-> "veo_generate_videos", scenes |-> scenes,
                       operations |-> operations, raised |-> g.raised, ret |-> g.ret,
                       files |-> g.files, calls |-> g.calls]

\* the services the full pipeline calls, in the order of the handler
PipelineStages ==
    <<"extract_snippets", "generate_scenes", "generate_videos",
      "generate_audio_clips", "stitch_videos", "sync_multiple_audio">>

\* A handler that goes on to the next statement after one raised.
TryEveryStatement(stages, stage_ok) ==
    [calls |-> stages, raised |-> \E i \in 1..Len(stages) : ~stage_ok[i]]

\* try: the awaited calls run in order and the first one that raises leaves
\* the block for the except clause.
TryBlock(stages, stage_ok) ==
    LET failing == {i \in 1..Len(stages) : ~stage_ok[i]}
    IN  IF failing = {} THEN [calls |-> stages, raised |-> FALSE]
        ELSE [calls |-> SubSeq(stages, 1, CHOOSE k \in failing : \A j \in failing : k <= j),
              raised |-> TRUE]

\* AudioService.generate_audio_clips: one AudioScene per scene
AudioSceneOf(scene) ==
    [scene_number |-> scene.scene_number,
     file_path |-> "./audio_output/audio_scene_" \o ToString(scene.scene_number) \o ".mp3",
     duration |-> scene.duration, transcript_text |-> scene.transcript_text]

\* POST /api/v1/generate-video of the video service (full pipeline).
\* returns[i] tells whether the i-th service call can return; stitching and
\* synchronisation raise anyway when they are handed no clip.
generate_video_full(max_snippets) ==
    \E returns \in [1..Len(PipelineStages) -> BOOLEAN],
       snippets \in SnippetLists, reported \in ProviderSceneLists :
       LET requested == IF max_snippets = 0 THEN 5 ELSE max_snippets
           scenes == generate_scenes(snippets, DefaultSceneDuration, TRUE, reported).scenes
           video_scenes == [i \in 1..Len(scenes) |-> VideoSceneOf(scenes[i], DefaultFilename(scenes[i]))]
           audio_scenes == [i \in 1..Len(scenes) |-> AudioSceneOf(scenes[i])]
           stage_ok == [i \in 1..Len(PipelineStages) |->
                           /\ returns[i]
                           /\ i = 5 => video_scenes # <<>>
                           /\ i = 6 => audio_scenes # <<>>]
           run == TryBlock(PipelineStages, stage_ok)
           base == [op |-> "generate_video_full", max_snippets |-> requested,
                    stage_ok |-> stage_ok, calls |-> run.calls]
       IN  pipe' =
             IF run.raised
             THEN base @@ [status |-> 500, body |-> Error500]
             ELSE base @@ [status |-> 200,
                           body |-> [snippets |-> snippets,
                                     scenes |-> scenes,
                                     video_scenes |-> video_scenes,
                                     audio_scenes |-> audio_scenes,
                                     stitched_video_path |-> Some("./video_output/stitched.mp4"),
                                     final_video_path |-> Some("./video_output/final.mp4"),
                                     total_duration |-> SumDurations(video_scenes)]]

pipeOthers == <<disk, search_hashmap, transcript_hashmap, io_faults, last,
                stored_search, stored_transcript, tts, sync, stitch, upload, threads>>

InitPipeline ==
    /\ CacheInit /\ io_faults = FALSE
    /\ pipe = Idle /\ tts = Idle /\ sync = Idle /\ stitch = Idle /\ upload = Idle /\ threads = Idle

\* The handlers keep nothing between requests: a behaviour is one request.
NextPipeline ==
    \/ pipe = Idle /\ \E sn \in SnippetLists, d \in SceneDurations :
                          GenerateScenes(sn, d) /\ UNCHANGED pipeOthers
    \/ pipe = Idle /\ \E m \in 0..MaxScenes : generate_video(m) /\ UNCHANGED pipeOthers
    \/ pipe = Idle /\ \E m \in 0..MaxScenes : generate_video_full(m) /\ UNCHANGED pipeOthers

SpecPipeline == InitPipeline /\ [][NextPipeline]_vars

\* a generated video whose video attribute is None
NoVideo == "None"

\* The operations generation k can end with; the file handle of a finished
\* generation names the generation.
ChainOperations(k) ==
    {[done |-> FALSE, error |-> FALSE, response |-> None],
     [done |-> TRUE, error |-> TRUE, response |-> None],
     [done |-> TRUE, error |-> FALSE, response |-> Some(<<>>)],
     [done |-> TRUE, error |-> FALSE, response |-> Some(<<NoVideo>>)],
     [done |-> TRUE, error |-> FALSE, response |-> Some(<<"file_" \o ToString(k)>>)]}

\* output_filename=f"extended_scene_{scene.scene_number}.mp4"
ExtendedFilename(scene) == "extended_scene_" \o ToString(scene.scene_number) \o ".mp4"

\* The loop of generate_videos (podcast service): st.current_video_file is
\* the handle of the latest generation; the loop ends at the first failure.
RECURSIVE ExtendLoop(_, _, _, _, _)
ExtendLoop(st, scenes, operations, download_ok, i) ==
    IF i > Len(scenes) \/ st.raised # "none" THEN st
    ELSE IF i > 1 /\ IsNone(st.current_video_file)
    THEN [st EXCEPT !.raised = "ValueError"]
    ELSE LET g == backend_generate_video(scenes[i],
                     IF i = 1 THEN DefaultFilename(scenes[i]) ELSE ExtendedFilename(scenes[i]),
                     st.current_video_file, operations[i], st.files, download_ok)
         IN  ExtendLoop([raised |-> g.raised,
                         video_scenes |-> IF g.raised = "none"
                                          THEN Append(st.video_scenes, g.ret.val)
                                          ELSE st.video_scenes,
                         current_video_file |-> IF g.raised = "none"
                                                THEN g.ret.val.video_file ELSE None,
                         total_duration |-> IF g.raised = "none"
                                            THEN st.total_duration + g.ret.val.duration
                                            ELSE st.total_duration,
                         files |-> g.files,
                         calls |-> Append(st.calls, g.call)],
                        scenes, operations, download_ok, i + 1)

\* A generate_videos that hands back every clip it made.
backend_generate_videos_all(scenes, operations, download_ok) ==
    LET st == ExtendLoop([raised |-> "none", video_scenes |-> <<>>,
                          current_video_file |-> None, total_duration |-> 0,
                          files |-> {}, calls |-> <<>>], scenes, operations, download_ok, 1)
    IN  IF scenes = <<>>
        THEN [raised |-> "ValueError", ret |-> None, files |-> {}, calls |-> <<>>]
        ELSE IF st.raised # "none"
        THEN [raised |-> st.raised, ret |-> None, files |-> st.files, calls |-> st.calls]
        ELSE [raised |-> "none",
              ret |-> Some([video_scenes |-> st.video_scenes,
                            total_duration |-> st.total_duration]),
              files |-> st.files, calls |-> st.calls]

\* VeoService.generate_videos of the podcast service (one extended video)
backend_generate_videos(scenes, operations, download_ok) ==
    LET st == ExtendLoop([raised |-> "none", video_scenes |-> <<>>,
                          current_video_file |-> None, total_duration |-> 0,
                          files |-> {}, calls |-> <<>>], scenes, operations, download_ok, 1)
        n == Len(st.video_scenes)
    IN  IF scenes = <<>>
        THEN [raised |-> "ValueError", ret |-> None, files |-> {}, calls |-> <<>>]
        ELSE IF st.raised # "none"
        THEN [raised |-> st.raised, ret |-> None, files |-> st.files, calls |-> st.calls]
        ELSE [raised |-> "none",
              ret |-> Some([video_scenes |->
                               IF n > 1
                               THEN <<[st.video_scenes[n] EXCEPT !.scene_number = 1]>>
                               ELSE st.video_scenes,
                            total_duration |-> st.total_duration]),
              files |-> st.files, calls |-> st.calls]

\* one generate_videos call of the podcast service
VeoExtendVideos ==
    \E scenes \in SceneLists, download_ok \in BOOLEAN :
       \E operations \in [1..Len(scenes) -> UNION {ChainOperations(k) : k \in 1..MaxScenes}] :
          LET g == backend_generate_videos(scenes, operations, download_ok)
          IN  /\ \A k \in 1..Len(scenes) : operations[k] \in ChainOperations(k)
              /\ pipe' = [op |-> "backend_generate_videos", scenes |-> scenes,
                          operations |-> operations, raised |-> g.raised, ret |-> g.ret,
                          files |-> g.files, calls |-> g.calls]

\* video generation on its own: one call per behaviour
NextVeo ==
    \/ pipe = Idle /\ \E variant \in {"backend", "video-api"} :
                          VeoGenerateVideo(variant) /\ UNCHANGED pipeOthers
    \/ pipe = Idle /\ VeoGenerateVideos /\ UNCHANGED pipeOthers
    \/ pipe = Idle /\ VeoExtendVideos /\ UNCHANGED pipeOthers

SpecVeo == InitPipeline /\ [][NextVeo]_vars

\* A handler that starts audio generation while video generation is still
\* in progress.
StartVideoAndAudioTogether(started, returned, k) ==
    /\ started = 1..(k - 1)
    /\ returned = started \/ (k = 4 /\ returned = started \ {3})

\* await: the handler is suspended in the call of stage k - 1 until it
\* returned, so stage k starts only when every earlier stage has returned
AwaitInOrder(started, returned, k) ==
    /\ started = 1..(k - 1)
    /\ returned = started

\* One request of the full pipeline, stage by stage: the handler calls stage k
StartStage(k) ==
    /\ pipe.op \in {"idle", "pipeline_run"}
    /\ LET run == IF pipe = Idle
                  THEN [op |-> "pipeline_run", started |-> {}, returned |-> {},
                        snippets |-> 0, scenes |-> 0, clips |-> 0, audio_clips |-> 0,
                        raised |-> 0, status |-> 0]
                  ELSE pipe
       IN  /\ run.status = 0
           /\ AwaitInOrder(run.started, run.returned, k)
           /\ pipe' = [run EXCEPT !.started = @ \cup {k}]

\* the snippet extractor answers with m snippets
SnippetsReturn(m) ==
    /\ pipe.op = "pipeline_run" /\ pipe.status = 0
    /\ 1 \in pipe.started \ pipe.returned
    /\ pipe' = [pipe EXCEPT !.snippets = m, !.returned = @ \cup {1}]

\* the scene generator answers with n scenes
ScenesReturn(n) ==
    /\ pipe.op = "pipeline_run" /\ pipe.status = 0
    /\ 2 \in pipe.started \ pipe.returned
    /\ pipe' = [pipe EXCEPT !.scenes = n, !.returned = @ \cup {2}]

\* generate_videos / generate_audio_clips: one more clip of the loop is done
ClipDone(k) ==
    /\ pipe.op = "pipeline_run" /\ pipe.status = 0
    /\ k \in {3, 4} /\ k \in pipe.started \ pipe.returned
    /\ IF k = 3
       THEN pipe.clips < pipe.scenes /\ pipe' = [pipe EXCEPT !.clips = @ + 1]
       ELSE pipe.audio_clips < pipe.scenes /\ pipe' = [pipe EXCEPT !.audio_clips = @ + 1]

\* stage k returns; the loops of stages 3 and 4 return after their last clip,
\* and the last stage's return is the 200 response
StageReturn(k) ==
    /\ pipe.op = "pipeline_run" /\ pipe.status = 0
    /\ k \notin {1, 2} /\ k \in pipe.started \ pipe.returned
    /\ k = 3 => pipe.clips = pipe.scenes
    /\ k = 4 => pipe.audio_clips = pipe.scenes
    /\ k = 5 => pipe.clips > 0
    /\ k = 6 => pipe.audio_clips > 0
    /\ pipe' = [pipe EXCEPT !.returned = @ \cup {k},
                            !.status = IF k = Len(PipelineStages) THEN 200 ELSE 0]

\* stage k raises: the except clause answers 500
StageRaise(k) ==
    /\ pipe.op = "pipeline_run" /\ pipe.status = 0
    /\ k \in pipe.started \ pipe.returned
    /\ pipe' = [pipe EXCEPT !.raised = k, !.status = 500]

NextStages ==
    \/ \E k \in 1..Len(PipelineStages) : StartStage(k) /\ UNCHANGED pipeOthers
    \/ \E m \in 0..MaxScenes : SnippetsReturn(m) /\ UNCHANGED pipeOthers
    \/ \E n \in 0..MaxScenes : ScenesReturn(n) /\ UNCHANGED pipeOthers
    \/ \E k \in 1..Len(PipelineStages) : ClipDone(k) /\ UNCHANGED pipeOthers
    \/ \E k \in 1..Len(PipelineStages) : StageReturn(k) /\ UNCHANGED pipeOthers
    \/ \E k \in 1..Len(PipelineStages) : StageRaise(k) /\ UNCHANGED pipeOthers

SpecStages == InitPipeline /\ [][NextStages]_vars

(***************************************************************************)
(* The polling loop of video generation, step by step                      *)
(* (VeoService._poll_operation of both services)                           *)
(***************************************************************************)

\* poll_interval, seconds
PollInterval == 10

\* max_wait_time: int = 600
DefaultMaxWait == 600

\* longest time (whole seconds) one status fetch takes
MaxLatency == 1

MaxWaitChoices == {25, DefaultMaxWait}

\* what a status fetch can find, or that it raises
FetchOutcomes == {"pending", "done", "done_error", "client_error"}

\* A loop that gives up whatever time has passed.
TimedOutAtOnce(elapsed, max_wait_time) == elapsed >= 0

\* if elapsed > max_wait_time
TimedOut(elapsed, max_wait_time) == elapsed > max_wait_time

\* the call is entered with an operation that is pending, done, or done
\* with an error
PollStart(variant, max_wait_time, entry) ==
    /\ pipe = Idle
    /\ pipe' = [op |-> "_poll_operation", variant |-> variant,
                max_wait_time |-> max_wait_time, done_at_entry |-> entry # "pending",
                done |-> entry # "pending", error |-> entry = "done_error",
                elapsed |-> 0, sleeps |-> 0, fetches |-> 0,
                pc |-> "while", raised |-> "none", caller |-> "waiting"]

\* while not operation.done: ... ; after the loop the podcast service raises
\* for an operation with an error, and the operation is returned otherwise.
\* generate_video and generate_videos pass every exception on.
PollWhile ==
    /\ pipe.op = "_poll_operation" /\ pipe.pc = "while"
    /\ LET result == IF pipe.variant = "backend"
                     THEN _poll_operation([done |-> TRUE, error |-> pipe.error])
                     ELSE _poll_operation_video_api([done |-> TRUE, error |-> pipe.error])
       IN  pipe' = IF ~pipe.done THEN [pipe EXCEPT !.pc = "check"]
                   ELSE IF result # "none"
                   THEN [pipe EXCEPT !.pc = "raised", !.raised = result, !.caller = "raised"]
                   ELSE [pipe EXCEPT !.pc = "returned", !.caller = "continues"]

\* elapsed = time.time() - start_time; if elapsed > max_wait_time: raise
PollCheck ==
    /\ pipe.op = "_poll_operation" /\ pipe.pc = "check"
    /\ pipe' = IF TimedOut(pipe.elapsed, pipe.max_wait_time)
               THEN [pipe EXCEPT !.pc = "raised", !.raised = "TimeoutError",
                                 !.caller = "raised"]
               ELSE [pipe EXCEPT !.pc = "sleep"]

\* time.sleep(poll_interval)
PollSleep ==
    /\ pipe.op = "_poll_operation" /\ pipe.pc = "sleep"
    /\ pipe' = [pipe EXCEPT !.elapsed = @ + PollInterval, !.sleeps = @ + 1, !.pc = "fetch"]

\* operation = self.client.operations.get(operation)
PollFetch(outcome, latency) ==
    /\ pipe.op = "_poll_operation" /\ pipe.pc = "fetch"
    /\ pipe' = IF outcome = "client_error"
               THEN [pipe EXCEPT !.elapsed = @ + latency, !.fetches = @ + 1,
                                 !.pc = "raised", !.raised = "ClientError",
                                 !.caller = "raised"]
               ELSE [pipe EXCEPT !.elapsed = @ + latency, !.fetches = @ + 1,
                                 !.done = outcome # "pending",
                                 !.error = outcome = "done_error",
                                 !.pc = "while"]

NextPoll ==
    \/ \E variant \in {"backend", "video-api"}, mw \in MaxWaitChoices,
          entry \in FetchOutcomes \ {"client_error"} :
          PollStart(variant, mw, entry) /\ UNCHANGED pipeOthers
    \/ PollWhile /\ UNCHANGED pipeOthers
    \/ PollCheck /\ UNCHANGED pipeOthers
    \/ PollSleep /\ UNCHANGED pipeOthers
    \/ \E outcome \in FetchOutcomes, latency \in 0..MaxLatency :
          PollFetch(outcome, latency) /\ UNCHANGED pipeOthers

\* the thread running the loop is not stopped: a step that can be taken is
\* taken
SpecPoll == InitPipeline /\ [][NextPoll]_vars /\ WF_vars(NextPoll)

(***************************************************************************)
(* Text chunking of the Google text-to-speech services                     *)
(* (src/backend/app/services/google_tts.py,                                *)
(*  src/video-api/app/services/audio_service.py)                           *)
(***************************************************************************)

\* longest input text, in characters
MaxTextLen == 5

\* default of _split_text's max_bytes
DefaultMaxBytes == 4500

\* a text is a sequence of characters; e-acute takes two bytes in UTF-8
Alphabet == {"a", "é", " ", ".", "?"}
InputTexts == UNION {[1..n -> Alphabet] : n \in 0..MaxTextLen}
CeilingChoices == {2, 3}

\* len(ch.encode('utf-8'))
Utf8Len(ch) == IF ch = "é" THEN 2 ELSE 1

\* len(text.encode('utf-8'))
RECURSIVE ByteLen(_)
ByteLen(text) == IF text = <<>> THEN 0 ELSE Utf8Len(Head(text)) + ByteLen(Tail(text))

\* text.replace(mark + ' ', mark + '|')
ReplaceBoundary(text, mark) ==
    [i \in 1..Len(text) |->
        IF i > 1 /\ text[i - 1] = mark /\ text[i] = " " THEN "|" ELSE text[i]]

\* text.split('|')
RECURSIVE SplitBar(_, _)
SplitBar(text, current) ==
    IF text = <<>> THEN <<current>>
    ELSE IF Head(text) = "|" THEN <<current>> \o SplitBar(Tail(text), <<>>)
    ELSE SplitBar(Tail(text), Append(current, Head(text)))

\* sentence.strip()
RECURSIVE Strip(_)
Strip(t) ==
    IF t = <<>> THEN t
    ELSE IF Head(t) = " " THEN Strip(Tail(t))
    ELSE IF t[Len(t)] = " " THEN Strip(SubSeq(t, 1, Len(t) - 1))
    ELSE t

\* The loop of _split_text over the sentences: state (chunks, current_chunk).
RECURSIVE ChunkLoop(_, _, _, _)
ChunkLoop(sentences, chunks, current_chunk, max_bytes) ==
    IF sentences = <<>>
    THEN IF current_chunk # <<>> THEN Append(chunks, current_chunk) ELSE chunks
    ELSE LET sentence == Strip(Head(sentences))
             test_chunk == IF current_chunk # <<>>
                           THEN current_chunk \o <<" ">> \o sentence ELSE sentence
         IN  IF sentence = <<>>
             THEN ChunkLoop(Tail(sentences), chunks, current_chunk, max_bytes)
             ELSE IF ByteLen(test_chunk) <= max_bytes
             THEN ChunkLoop(Tail(sentences), chunks, test_chunk, max_bytes)
             ELSE ChunkLoop(Tail(sentences),
                            IF current_chunk # <<>> THEN Append(chunks, current_chunk) ELSE chunks,
                            sentence, max_bytes)

\* GoogleTTSService._split_text / AudioService._split_text (the same code)
_split_text(text, max_bytes) ==
    IF ByteLen(text) <= max_bytes THEN <<text>>
    ELSE LET sentences ==
                 SplitBar(ReplaceBoundary(ReplaceBoundary(ReplaceBoundary(text, "!"), "?"), "."),
                          <<>>)
         IN  ChunkLoop(sentences, <<>>, <<>>, max_bytes)

\* _split_text(text, max_bytes) called on the input text
SplitText(max_bytes) ==
    tts' = [op |-> "_split_text", text |-> tts.text, max_bytes |-> max_bytes,
            chunks |-> _split_text(tts.text, max_bytes)]

\* _generate_speech(text, voice_name): one synthesis request per chunk of
\* _split_text(text) with the default ceiling
GenerateSpeech ==
    tts' = [op |-> "_generate_speech", text |-> tts.text, max_bytes |-> DefaultMaxBytes,
            chunks |-> _split_text(tts.text, DefaultMaxBytes)]

ttsOthers == <<disk, search_hashmap, transcript_hashmap, io_faults, last,
               stored_search, stored_transcript, pipe, sync, stitch, upload, threads>>

InitTTS ==
    /\ CacheInit /\ io_faults = FALSE
    /\ tts \in {[op |-> "input", text |-> t] : t \in InputTexts}
    /\ pipe = Idle /\ sync = Idle /\ stitch = Idle /\ upload = Idle /\ threads = Idle

NextTTS ==
    \/ \E mb \in CeilingChoices : SplitText(mb) /\ UNCHANGED ttsOthers
    \/ GenerateSpeech /\ UNCHANGED ttsOthers

SpecTTS == InitTTS /\ [][NextTTS]_vars

(***************************************************************************)
(* Parsing the provider answer of snippet extraction                       *)
(* (src/backend/app/services/snippet_extractor.py,                         *)
(*  src/video-api/app/services/snippet_extractor.py)                       *)
(***************************************************************************)

\* longest provider answer, in characters
MaxJsonLen == 4

\* An answer is a sequence of characters; "F" stands for the fence ``` and
\* "J" for the fence ```json, each taken as one character.
JsonAlphabet == {"{", "}", "[", "]", "\"", " ", "F", "J"}
ResponseTexts == UNION {[1..n -> JsonAlphabet] : n \in 0..MaxJsonLen}

\* json_str.count(ch)
Count(str, ch) == Cardinality({i \in 1..Len(str) : str[i] = ch})

\* the first index from i on that holds no blank (Len(str) + 1 if none)
RECURSIVE SkipWs(_, _)
SkipWs(str, i) == IF i <= Len(str) /\ str[i] = " " THEN SkipWs(str, i + 1) ELSE i

\* the index after the JSON value that starts at i, 0 if there is none.
\* Over this alphabet a JSON value is {}, [], [value] or a string.
RECURSIVE ParseValue(_, _)
ParseValue(str, i) ==
    IF i > Len(str) THEN 0
    ELSE IF str[i] = "{"
    THEN LET j == SkipWs(str, i + 1)
         IN  IF j <= Len(str) /\ str[j] = "}" THEN j + 1 ELSE 0
    ELSE IF str[i] = "["
    THEN LET j == SkipWs(str, i + 1)
         IN  IF j <= Len(str) /\ str[j] = "]" THEN j + 1
             ELSE LET k == ParseValue(str, j)
                      m == SkipWs(str, k)
                  IN  IF k # 0 /\ m <= Len(str) /\ str[m] = "]" THEN m + 1 ELSE 0
    ELSE IF str[i] = "\""
    THEN LET closing == {j \in (i + 1)..Len(str) : str[j] = "\""}
         IN  IF closing = {} THEN 0
             ELSE (CHOOSE j \in closing : \A k \in closing : j <= k) + 1
    ELSE 0

\* json.loads(json_str): whether it decodes, and to what
json_loads(json_str) ==
    LET i == SkipWs(json_str, 1)
        k == ParseValue(json_str, i)
    IN  IF k = 0 \/ SkipWs(json_str, k) <= Len(json_str)
        THEN [raised |-> "JSONDecodeError", value |-> "none"]
        ELSE [raised |-> "none",
              value |-> IF json_str[i] = "{" THEN "dict"
                        ELSE IF json_str[i] = "[" THEN "list" ELSE "str"]

\* response_text.find(fence) for either fence, from index start on (0 if absent)
FindFence(str, fences, start) ==
    LET at == {i \in start..Len(str) : str[i] \in fences}
    IN  IF at = {} THEN 0 ELSE CHOOSE i \in at : \A j \in at : i <= j

\* the text between the first fence of the given kind and the next fence;
\* with no closing fence find() gives -1 and the slice drops the last character
Fenced(str, fences) ==
    LET start == FindFence(str, fences, 1) + 1
        end == FindFence(str, {"F", "J"}, start)
    IN  Strip(IF end = 0 THEN SubSeq(str, start, Len(str) - 1)
              ELSE SubSeq(str, start, end - 1))

\* the first lines of _parse_json_response (the same in both services)
ExtractJsonStr(response_text) ==
    IF FindFence(response_text, {"J"}, 1) # 0 THEN Fenced(response_text, {"J"})
    ELSE IF FindFence(response_text, {"F"}, 1) # 0 THEN Fenced(response_text, {"F"})
    ELSE Strip(response_text)

\* the repair: a closing quote for an odd quote count, then the missing
\* closing bracket and brace
Repair(json_str) ==
    LET quoted == IF Count(json_str, "\"") % 2 # 0 THEN Append(json_str, "\"") ELSE json_str
        bracketed == IF Count(quoted, "[") > Count(quoted, "]")
                     THEN Append(quoted, "]") ELSE quoted
    IN  IF Count(bracketed, "{") > Count(bracketed, "}")
        THEN Append(bracketed, "}") ELSE bracketed

\* SnippetExtractor._parse_json_response of the podcast service
_parse_json_response(response_text) ==
    LET json_str == ExtractJsonStr(response_text)
        first == json_loads(json_str)
        second == json_loads(Repair(json_str))
    IN  IF first.raised = "none" THEN first
        ELSE IF second.raised = "none" THEN second
        ELSE [raised |-> "ValueError", value |-> "none"]

\* SnippetExtractor._parse_json_response of the video service
_parse_json_response_video_api(response_text) ==
    LET first == json_loads(ExtractJsonStr(response_text))
    IN  IF first.raised = "none" THEN first
        ELSE [raised |-> "ValueError", value |-> "none"]

\* result.get('snippets', []) on what was decoded: only a dict has get
SnippetsOf(parsed) ==
    IF parsed.raised # "none" THEN parsed.raised
    ELSE IF parsed.value # "dict" THEN "AttributeError"
    ELSE "none"

\* SnippetExtractor.extract_snippets of the video service: prompt
\* instructions alone, max_output_tokens=4000, _parse_json_response
extract_snippets_video_api(response_text) ==
    pipe' = [op |-> "extract_snippets", variant |-> "video-api",
             max_output_tokens |-> 4000, response_schema |-> FALSE,
             response_text |-> response_text,
             raised |-> SnippetsOf(_parse_json_response_video_api(response_text))]

\* SnippetExtractor.extract_snippets of the podcast service: response_schema,
\* max_output_tokens=8000, json.loads(response.text)
extract_snippets_backend(response_text) ==
    pipe' = [op |-> "extract_snippets", variant |-> "backend",
             max_output_tokens |-> 8000, response_schema |-> TRUE,
             response_text |-> response_text,
             raised |-> SnippetsOf(json_loads(response_text))]

\* _parse_json_response of the podcast service called on its own (no handler
\* of the service calls it)
ParseJsonResponse(response_text) ==
    pipe' = [op |-> "_parse_json_response", variant |-> "backend",
             response_text |-> response_text,
             raised |-> _parse_json_response(response_text).raised]

NextSnippets ==
    \/ pipe = Idle /\ \E t \in ResponseTexts :
                          extract_snippets_video_api(t) /\ UNCHANGED pipeOthers
    \/ pipe = Idle /\ \E t \in ResponseTexts :
                          extract_snippets_backend(t) /\ UNCHANGED pipeOthers
    \/ pipe = Idle /\ \E t \in ResponseTexts :
                          ParseJsonResponse(t) /\ UNCHANGED pipeOthers

SpecSnippets == InitPipeline /\ [][NextSnippets]_vars

(***************************************************************************)
(* Audio/video synchronisation (src/video-api/app/services/audio_sync.py)  *)
(***************************************************************************)

\* longest clip, in time units, and most audio paths of one request
MaxDuration == 3
MaxAudioPaths == 2

\* a media file on disk: exists or not, and how long it plays
MediaFiles == [exists : BOOLEAN, duration : 1..MaxDuration]

\* AudioFileClip(path) / VideoFileClip(path)
AudioFileClip(file, name) == [source |-> <<name>>, start |-> 0, duration |-> file.duration]
VideoFileClip(file) == [duration |-> file.duration, audio |-> None]

\* clip.subclip(t_start, t_end)
subclip(clip, t_start, t_end) ==
    [clip EXCEPT !.start = clip.start + t_start, !.duration = t_end - t_start]

\* video_clip.set_audio(audio_clip): the video keeps its own duration
set_audio(video_clip, audio_clip) == [video_clip EXCEPT !.audio = Some(audio_clip)]

\* concatenate_audioclips(clips)
RECURSIVE concatenate_audioclips(_)
concatenate_audioclips(clips) ==
    IF Len(clips) = 1 THEN clips[1]
    ELSE LET rest == concatenate_audioclips(Tail(clips))
         IN  [source |-> clips[1].source \o rest.source, start |-> 0,
              duration |-> clips[1].duration + rest.duration]

\* A mismatch handling that also stretches a short audio to the video.
FitToVideo(audio_clip, audio_duration, video_duration) ==
    IF audio_duration # video_duration
    THEN [audio_clip EXCEPT !.duration = video_duration]
    ELSE audio_clip

\* "Handle duration mismatch": trim a longer audio, leave a shorter one
HandleMismatch(audio_clip, audio_duration, video_duration) ==
    IF audio_duration > video_duration
    THEN subclip(audio_clip, 0, video_duration)
    ELSE audio_clip

\* the call ends by re-raising an exception
SyncRaised(op, video, audios) ==
    [op |-> op, ok |-> FALSE, video |-> video, audio_paths |-> audios]

\* AudioSync.sync_audio(video_path, audio_path)
sync_audio(video, audio) ==
    sync' = IF ~video.exists \/ ~audio.exists
            THEN SyncRaised("sync_audio", video, <<audio>>)
            ELSE LET video_clip == VideoFileClip(video)
                     audio_clip == AudioFileClip(audio, "audio_1")
                     final_clip == set_audio(video_clip,
                                      HandleMismatch(audio_clip, audio_clip.duration,
                                                     video_clip.duration))
                 IN  [op |-> "sync_audio", ok |-> TRUE, video |-> video, audio_paths |-> <<audio>>,
                      video_duration |-> video.duration,
                      loaded_audio |-> audio_clip,
                      final_clip |-> final_clip,
                      duration |-> final_clip.duration]

\* the clips of the audio paths that exist, in order
RECURSIVE LoadExisting(_, _)
LoadExisting(audios, i) ==
    IF i > Len(audios) THEN <<>>
    ELSE (IF audios[i].exists
          THEN <<AudioFileClip(audios[i], "audio_" \o ToString(i))>> ELSE <<>>)
         \o LoadExisting(audios, i + 1)

\* AudioSync.sync_multiple_audio(video_path, audio_paths)
sync_multiple_audio(video, audios) ==
    sync' = LET audio_clips == LoadExisting(audios, 1) IN
            IF ~video.exists \/ audio_clips = <<>>
            THEN SyncRaised("sync_multiple_audio", video, audios)
            ELSE LET video_clip == VideoFileClip(video)
                     combined_audio == concatenate_audioclips(audio_clips)
                     final_clip == set_audio(video_clip,
                                      HandleMismatch(combined_audio, combined_audio.duration,
                                                     video_clip.duration))
                 IN  [op |-> "sync_multiple_audio", ok |-> TRUE, video |-> video, audio_paths |-> audios,
                      video_duration |-> video.duration,
                      loaded_audio |-> combined_audio,
                      final_clip |-> final_clip,
                      duration |-> final_clip.duration]

syncOthers == <<disk, search_hashmap, transcript_hashmap, io_faults, last,
                stored_search, stored_transcript, pipe, tts, stitch, upload, threads>>

InitSync ==
    /\ CacheInit /\ io_faults = FALSE
    /\ pipe = Idle /\ tts = Idle /\ sync = Idle /\ stitch = Idle /\ upload = Idle /\ threads = Idle

AudioPathLists == UNION {[1..n -> MediaFiles] : n \in 0..MaxAudioPaths}

\* The service keeps nothing between calls: a behaviour is one call.
NextSync ==
    \/ sync = Idle /\ \E v \in MediaFiles, a \in MediaFiles :
                          sync_audio(v, a) /\ UNCHANGED syncOthers
    \/ sync = Idle /\ \E v \in MediaFiles, as \in AudioPathLists :
                          sync_multiple_audio(v, as) /\ UNCHANGED syncOthers

SpecSync == InitSync /\ [][NextSync]_vars

(***************************************************************************)
(* Video stitching (src/backend/app/services/video_stitcher.py)            *)
(***************************************************************************)

\* most clips of one stitch request
MaxClips == 2

target_width == 1080
target_height == 1920

\* frame sizes <<w, h>> of input clips: the target itself, landscape, a
\* smaller 9:16 frame, two frames narrower than 9:16 and a near-9:16 frame
InputSizes == {<<1080, 1920>>, <<1920, 1080>>, <<720, 1280>>,
               <<1080, 2400>>, <<1080, 1350>>, <<608, 1080>>, <<1000, 2000>>}

ClipFiles == [exists : BOOLEAN, size : InputSizes]

\* int(x) for x given as twice its value: truncation towards zero
IntOfHalf(twice) == IF twice >= 0 THEN twice \div 2 ELSE -((-twice) \div 2)

\* length of frame[a:b] on an axis of n pixels (negative indices count from the end)
SliceLen(a, b, n) ==
    LET lo == IF a < 0 THEN (IF a + n < 0 THEN 0 ELSE a + n) ELSE (IF a > n THEN n ELSE a)
        hi == IF b < 0 THEN (IF b + n < 0 THEN 0 ELSE b + n) ELSE (IF b > n THEN n ELSE b)
    IN  IF hi > lo THEN hi - lo ELSE 0

\* clip.resize(height=h): newsize = [w * height / h, height], taken to integers
_resize_clip(clip, height) ==
    [w |-> (clip.w * height) \div clip.h, h |-> height]

\* clip.crop(x_center=clip.w / 2, width=width): the frame columns int(x1):int(x2)
\* with x1 = x_center - width / 2 and x2 = x_center + width / 2
_crop_clip(clip, width) ==
    [w |-> SliceLen(IntOfHalf(clip.w - width), IntOfHalf(clip.w + width), clip.w), h |-> clip.h]

\* The normalisation of one loaded clip in stitch_videos.
Normalise(clip) ==
    IF clip.w # target_width \/ clip.h # target_height
    THEN LET resized == _resize_clip(clip, target_height)
         IN  IF resized.w # target_width THEN _crop_clip(resized, target_width) ELSE resized
    ELSE clip

\* VideoStitcher.stitch_videos(video_paths)
stitch_videos(video_paths) ==
    stitch' = IF video_paths = <<>> \/ \E i \in 1..Len(video_paths) : ~video_paths[i].exists
              THEN [op |-> "stitch_videos", ok |-> FALSE, video_paths |-> video_paths,
                    clips |-> <<>>]
              ELSE [op |-> "stitch_videos", ok |-> TRUE, video_paths |-> video_paths,
                    clips |-> [i \in 1..Len(video_paths) |->
                                  Normalise([w |-> video_paths[i].size[1],
                                             h |-> video_paths[i].size[2]])]]

stitchOthers == <<disk, search_hashmap, transcript_hashmap, io_faults, last,
                  stored_search, stored_transcript, pipe, tts, sync, upload, threads>>

InitStitch ==
    /\ CacheInit /\ io_faults = FALSE
    /\ pipe = Idle /\ tts = Idle /\ sync = Idle /\ stitch = Idle /\ upload = Idle /\ threads = Idle

StitchInputs == UNION {[1..n -> ClipFiles] : n \in 0..MaxClips}

\* The service keeps nothing between calls: a behaviour is one call.
NextStitch ==
    stitch = Idle /\ \E paths \in StitchInputs : stitch_videos(paths) /\ UNCHANGED stitchOthers

SpecStitch == InitStitch /\ [][NextStitch]_vars

(***************************************************************************)
(* Upload handler (src/backend/app/api/v1/upload.py)                       *)
(***************************************************************************)

\* most upload requests of one run
MaxRequests == 2

\* strings of this part are sequences of characters
S_pdf == <<"p", "d", "f">>
S_image == <<"i", "m", "a", "g", "e">>
S_audio == <<"a", "u", "d", "i", "o">>
S_video == <<"v", "i", "d", "e", "o">>
S_youtube == <<"y", "o", "u", "t", "u", "b", "e">>

\* SourceType values
SourceTypeValues == {S_youtube, S_image, S_audio, S_video, S_pdf}

\* source_type form values: the five enum values, an upper-case spelling and
\* a string that names no type
SourceTypeInputs == SourceTypeValues \cup {<<"P", "D", "F">>, <<"t", "e", "x", "t">>}

\* declared MIME types: None, image/png, application/pdf, text/plain
ContentTypes ==
    { <<>>,
      <<"i", "m", "a", "g", "e", "/", "p", "n", "g">>,
      <<"a", "p", "p", "l", "i", "c", "a", "t", "i", "o", "n", "/", "p", "d", "f">>,
      <<"t", "e", "x", "t", "/", "p", "l", "a", "i", "n">> }

\* file names: None, photo.png, doc.PDF, clip.ogg, .pdf
FileNames ==
    { <<>>,
      <<"p", "h", "o", "t", "o", ".", "p", "n", "g">>,
      <<"d", "o", "c", ".", "P", "D", "F">>,
      <<"c", "l", "i", "p", ".", "o", "g", "g">>,
      <<".", "p", "d", "f">> }

UploadFiles == [content_type : ContentTypes, filename : FileNames]

UpperCase == <<"A", "B", "C", "D", "E", "F", "G", "H", "I", "J", "K", "L", "M",
               "N", "O", "P", "Q", "R", "S", "T", "U", "V", "W", "X", "Y", "Z">>
LowerCase == <<"a", "b", "c", "d", "e", "f", "g", "h", "i", "j", "k", "l", "m",
               "n", "o", "p", "q", "r", "s", "t", "u", "v", "w", "x", "y", "z">>

\* str.lower()
Lower(str) ==
    [i \in 1..Len(str) |->
        IF \E k \in 1..26 : UpperCase[k] = str[i]
        THEN LowerCase[CHOOSE k \in 1..26 : UpperCase[k] = str[i]]
        ELSE str[i]]

\* str.startswith(prefix)
StartsWith(str, prefix) ==
    Len(str) >= Len(prefix) /\ SubSeq(str, 1, Len(prefix)) = prefix

\* sub in str
Contains(str, sub) ==
    \E i \in 1..(Len(str) - Len(sub) + 1) : SubSeq(str, i, i + Len(sub) - 1) = sub

\* Path(filename).suffix: from the last dot, unless the name starts or ends with it
Suffix(filename) ==
    LET dots == {i \in 1..Len(filename) : filename[i] = "."}
        last_dot == CHOOSE i \in dots : \A j \in dots : j <= i
    IN  IF dots # {} /\ 1 < last_dot /\ last_dot < Len(filename)
        THEN SubSeq(filename, last_dot, Len(filename))
        ELSE <<>>

\* get_file_extension(filename)
get_file_extension(filename) == Lower(Suffix(filename))

Ext(name) == <<".">> \o name

\* A validation that looks at the file only.
validate_any_type(file, source_type) ==
    LET m == file.content_type
        e == get_file_extension(file.filename)
    IN  \/ Contains(m, S_pdf) \/ e = Ext(S_pdf)
        \/ StartsWith(m, S_image \o <<"/">>) \/ StartsWith(m, S_audio \o <<"/">>)
        \/ StartsWith(m, S_video \o <<"/">>)
        \/ e \in {Ext(<<"p", "n", "g">>), Ext(<<"o", "g", "g">>)}

\* validate_file_type(file, source_type)
validate_file_type(file, source_type) ==
    LET m == file.content_type
        e == get_file_extension(file.filename)
    IN  CASE source_type = S_pdf -> Contains(m, S_pdf) \/ e = Ext(S_pdf)
          [] source_type = S_image ->
                StartsWith(m, S_image \o <<"/">>)
                \/ e \in {Ext(<<"j", "p", "g">>), Ext(<<"j", "p", "e", "g">>),
                          Ext(<<"p", "n", "g">>), Ext(<<"g", "i", "f">>),
                          Ext(<<"w", "e", "b", "p">>)}
          [] source_type = S_audio ->
                StartsWith(m, S_audio \o <<"/">>)
                \/ e \in {Ext(<<"m", "p", "3">>), Ext(<<"w", "a", "v">>),
                          Ext(<<"o", "g", "g">>), Ext(<<"m", "4", "a">>)}
          [] source_type = S_video ->
                StartsWith(m, S_video \o <<"/">>)
                \/ e \in {Ext(<<"m", "p", "4">>), Ext(<<"w", "e", "b", "m">>),
                          Ext(<<"o", "g", "g">>), Ext(<<"m", "o", "v">>)}
          [] OTHER -> FALSE

\* how saving the file ends: saved, failed before the file exists, failed
\* after open() created it
SaveOutcomes == {"saved", "not_created", "write_failed"}

\* POST /api/v1/upload.  before keeps the stored files as they were when the
\* request arrived.
upload_source(file, source_type) ==
    LET lowered == Lower(source_type)
        file_id == upload.count + 1
        new_filename == <<"uuid", file_id>> \o get_file_extension(file.filename)
        file_path == <<"uploads", lowered, new_filename>>
        request == [op |-> "upload_source", file |-> file, source_type |-> source_type]
    IN  /\ upload.count < MaxRequests
        /\ \/ /\ lowered \notin SourceTypeValues
              /\ upload' = [before |-> upload.files, files |-> upload.files, count |-> upload.count + 1,
                            resp |-> request @@ [status |-> 400,
                                                 detail |-> "Invalid source_type. Must be one of: image, audio, video, pdf"]]
           \/ /\ lowered \in SourceTypeValues
              /\ ~validate_file_type(file, lowered)
              /\ upload' = [before |-> upload.files, files |-> upload.files, count |-> upload.count + 1,
                            resp |-> request @@ [status |-> 400,
                                                 detail |-> "File type does not match declared source_type"]]
           \/ /\ lowered \in SourceTypeValues
              /\ validate_file_type(file, lowered)
              /\ \E outcome \in SaveOutcomes :
                    upload' =
                      IF outcome = "saved"
                      THEN [before |-> upload.files, files |-> upload.files \cup {file_path}, count |-> upload.count + 1,
                            resp |-> request @@ [status |-> 200,
                                                 body |-> [id |-> file_id, type |-> lowered,
                                                           name |-> IF file.filename # <<>>
                                                                    THEN file.filename
                                                                    ELSE new_filename,
                                                           file_path |-> file_path]]]
                      ELSE [before |-> upload.files, files |-> IF outcome = "write_failed"
                                      THEN upload.files \cup {file_path} ELSE upload.files,
                            count |-> upload.count + 1,
                            resp |-> request @@ [status |-> 500,
                                                 detail |-> "Error uploading file"]]

uploadOthers == <<disk, search_hashmap, transcript_hashmap, io_faults, last,
                  stored_search, stored_transcript, pipe, tts, sync, stitch, threads>>

InitUpload ==
    /\ CacheInit /\ io_faults = FALSE
    /\ pipe = Idle /\ tts = Idle /\ sync = Idle /\ stitch = Idle
    /\ upload = [before |-> {}, files |-> {}, count |-> 0, resp |-> Idle]
    /\ threads = Idle

NextUpload ==
    \E f \in UploadFiles, t \in SourceTypeInputs : upload_source(f, t) /\ UNCHANGED uploadOthers

SpecUpload == InitUpload /\ [][NextUpload]_vars

(***************************************************************************)
(* Voice selection of the speech endpoints                                 *)
(* (src/backend/app/api/v1/tts.py, src/backend/app/api/v1/video.py,        *)
(*  src/backend/app/services/elevenlabs.py,                                *)
(*  src/video-api/app/api/v1/video.py,                                     *)
(*  src/video-api/app/services/audio_service.py)                           *)
(***************************************************************************)

\* most blanks before and after a supplied voice id
MaxPad == 1

DEFAULT_VOICE_HOST1 == <<"R", "a", "c", "h", "e", "l">>
DEFAULT_VOICE_HOST2 == <<"D", "r", "e", "w">>
DEFAULT_VOICE_ID == <<"N", "e", "u", "r", "a", "l", "2">>

\* the sentinel, as str.lower() leaves it
DefaultWord == <<"d", "e", "f", "a", "u", "l", "t">>

VoiceCores ==
    {<<>>, DefaultWord, <<"D", "e", "f", "a", "u", "l", "t">>,
     <<"D", "E", "F", "A", "U", "L", "T">>, <<"v", "1">>}

Pad(k) == [i \in 1..k |-> " "]

\* the voice ids a caller may send: absent, or a string
VoiceIdInputs ==
    {None} \cup {Some(Pad(a) \o c \o Pad(b)) : a \in 0..MaxPad, b \in 0..MaxPad, c \in VoiceCores}

\* _normalize_voice_id(voice_id)
_normalize_voice_id(voice_id) ==
    IF IsNone(voice_id) THEN None
    ELSE LET normalized == Strip(voice_id.val)
         IN  IF normalized = <<>> \/ Lower(normalized) = DefaultWord THEN None
             ELSE Some(normalized)

\* voice_id or default
OrDefault(voice_id, default) == IF Truthy(voice_id) THEN voice_id.val ELSE default

\* the speakers of the segments of a two-host script
ScriptSpeakers == <<"HOST_1", "HOST_2", "HOST_1">>

\* ElevenLabsService.generate_audio: the voice ids of the provider calls
elevenlabs_generate_audio(format, voice_id_host1, voice_id_host2) ==
    LET voice1 == OrDefault(voice_id_host1, DEFAULT_VOICE_HOST1)
        voice2 == OrDefault(voice_id_host2, DEFAULT_VOICE_HOST2)
    IN  IF format = "single" THEN <<voice1>>
        ELSE [i \in 1..Len(ScriptSpeakers) |->
                 IF ScriptSpeakers[i] = "HOST_1" THEN voice1 ELSE voice2]

\* AudioService.generate_audio_clips: the voice name of the provider calls
audio_service_voice(voice_id) == IF IsNone(voice_id) THEN DEFAULT_VOICE_ID ELSE voice_id.val

\* POST /api/v1/tts
convert_to_speech(format, voice_id_host1, voice_id_host2) ==
    tts' = [op |-> "convert_to_speech", format |-> format,
            voice_id_host1 |-> voice_id_host1, voice_id_host2 |-> voice_id_host2,
            provider_voices |-> elevenlabs_generate_audio(format, voice_id_host1, voice_id_host2)]

\* POST /api/v1/generate-audio of the podcast service
generate_audio(voice_id) ==
    LET normalized_voice_id == _normalize_voice_id(voice_id)
    IN  tts' = [op |-> "generate_audio", service |-> "backend", voice_id |-> voice_id,
                passed |-> normalized_voice_id,
                provider_voices |-> <<audio_service_voice(normalized_voice_id)>>]

\* POST /api/v1/generate-audio of the video service
generate_audio_video_api(voice_id) ==
    tts' = [op |-> "generate_audio", service |-> "video-api", voice_id |-> voice_id,
            passed |-> voice_id,
            provider_voices |-> <<audio_service_voice(voice_id)>>]

InitVoice ==
    /\ CacheInit /\ io_faults = FALSE
    /\ tts = Idle /\ pipe = Idle /\ sync = Idle /\ stitch = Idle /\ upload = Idle /\ threads = Idle

\* The handlers keep nothing between requests: a behaviour is one request.
NextVoice ==
    \/ tts = Idle /\ \E f \in {"single", "two_hosts"}, v1 \in VoiceIdInputs, v2 \in VoiceIdInputs :
                         convert_to_speech(f, v1, v2) /\ UNCHANGED ttsOthers
    \/ tts = Idle /\ \E v \in VoiceIdInputs : generate_audio(v) /\ UNCHANGED ttsOthers
    \/ tts = Idle /\ \E v \in VoiceIdInputs : generate_audio_video_api(v) /\ UNCHANGED ttsOthers

SpecVoice == InitVoice /\ [][NextVoice]_vars

(***************************************************************************)
(* Speech for a whole script (GoogleTTSService.generate_audio and          *)
(* ElevenLabsService.generate_audio)                                       *)
(***************************************************************************)

\* most segments of a script
MaxSegments == 2

Speakers == {"HOST_1", "HOST_2"}
SegmentTexts == {"hello", "world"}

\* PodcastScript: format, full_script, segments
Scripts ==
    {[format |-> f, full_script |-> "hello world", segments |-> s] :
        f \in {"single", "two_hosts"},
        s \in UNION {[1..n -> [speaker : Speakers, text : SegmentTexts]] : n \in 0..MaxSegments}}

\* GoogleTTSService.DEFAULT_VOICE_HOST1 / DEFAULT_VOICE_HOST2
GOOGLE_DEFAULT_VOICE_HOST1 == <<"F">>
GOOGLE_DEFAULT_VOICE_HOST2 == <<"J">>

ProviderDefaults(provider) ==
    IF provider = "google"
    THEN <<GOOGLE_DEFAULT_VOICE_HOST1, GOOGLE_DEFAULT_VOICE_HOST2>>
    ELSE <<DEFAULT_VOICE_HOST1, DEFAULT_VOICE_HOST2>>

\* _generate_speech(text, voice): the bytes of one text unit spoken by one
\* voice, as a one-element byte string naming the unit
_generate_speech(text, voice) == <<[text |-> text, voice |-> voice]>>

\* A loop that speaks every segment with host 1's voice.
VoiceOfHost1(speaker, voice1, voice2) == voice1

\* voice1 if segment.speaker == "HOST_1" else voice2
VoiceOf(speaker, voice1, voice2) == IF speaker = "HOST_1" THEN voice1 ELSE voice2

\* b''.join(audio_segments)
RECURSIVE JoinBytes(_)
JoinBytes(parts) == IF parts = <<>> THEN <<>> ELSE Head(parts) \o JoinBytes(Tail(parts))

\* generate_audio(script, voice_id_host1, voice_id_host2) of either provider
script_generate_audio(provider, script, voice_id_host1, voice_id_host2) ==
    LET voice1 == OrDefault(voice_id_host1, ProviderDefaults(provider)[1])
        voice2 == OrDefault(voice_id_host2, ProviderDefaults(provider)[2])
    IN  IF script.format = "single"
        THEN _generate_speech(script.full_script, voice1)
        ELSE JoinBytes([i \in 1..Len(script.segments) |->
                           _generate_speech(script.segments[i].text,
                                            VoiceOf(script.segments[i].speaker, voice1, voice2))])

ScriptVoices == {None, Some(<<>>), Some(<<"v", "1">>), Some(<<"v", "2">>)}

\* one generate_audio call
ScriptAudio(provider) ==
    \E script \in Scripts, v1 \in ScriptVoices, v2 \in ScriptVoices :
       tts' = [op |-> "script_generate_audio", provider |-> provider, script |-> script,
               voice_id_host1 |-> v1, voice_id_host2 |-> v2,
               audio |-> script_generate_audio(provider, script, v1, v2)]

NextScript ==
    \/ tts = Idle /\ ScriptAudio("google") /\ UNCHANGED ttsOthers
    \/ tts = Idle /\ ScriptAudio("elevenlabs") /\ UNCHANGED ttsOthers

SpecScript == InitVoice /\ [][NextScript]_vars

(***************************************************************************)
(* Threads calling the cache under its two locks                           *)
(* (src/backend/app/core/cache.py)                                         *)
(***************************************************************************)

\* threads calling the cache at the same time, one call each
MaxThreads == 2
Threads == 1..MaxThreads

Namespaces == {"search", "transcript"}

Step(act, ns) == [act |-> act, ns |-> ns]

\* get_search_results / get_transcript: with lock: key in hashmap, then the
\* entry file is read
GetProgram(ns) ==
    <<Step("acquire", ns), Step("check_index", ns), Step("read_file", ns), Step("release", ns)>>

\* set_search_results / set_transcript: with lock: write the entry file, put
\* the key into the hashmap, save the hashmap
SetProgram(ns) ==
    <<Step("acquire", ns), Step("write_file", ns), Step("put_index", ns),
      Step("save_index", ns), Step("release", ns)>>

\* clear_search_cache / clear_transcript_cache: with lock: unlink the entry
\* files, clear the hashmap, save it
ClearProgram(ns) ==
    <<Step("acquire", ns), Step("unlink_files", ns), Step("clear_index", ns),
      Step("save_index", ns), Step("release", ns)>>

\* clear_all: the two clears one after the other
ClearAllProgram == ClearProgram("search") \o ClearProgram("transcript")

\* get_stats: len() of both hashmaps, then glob and stat over both entry
\* directories; no lock is taken
GetStatsProgram ==
    <<Step("len_index", "search"), Step("len_index", "transcript"),
      Step("glob", "search"), Step("stat", "search"),
      Step("glob", "transcript"), Step("stat", "transcript")>>

CacheOps ==
    {"get_search_results", "set_search_results", "clear_search_cache",
     "get_transcript", "set_transcript", "clear_transcript_cache",
     "clear_all", "get_stats"}

Program(op) ==
    CASE op = "get_search_results" -> GetProgram("search")
      [] op = "set_search_results" -> SetProgram("search")
      [] op = "clear_search_cache" -> ClearProgram("search")
      [] op = "get_transcript" -> GetProgram("transcript")
      [] op = "set_transcript" -> SetProgram("transcript")
      [] op = "clear_transcript_cache" -> ClearProgram("transcript")
      [] op = "clear_all" -> ClearAllProgram
      [] op = "get_stats" -> GetStatsProgram
      [] OTHER -> <<>>

\* thread t is inside a call
Running(t) == threads.pc[t] >= 1 /\ threads.pc[t] <= Len(Program(threads.op[t]))

\* the step thread t takes next
Current(t) == Program(threads.op[t])[threads.pc[t]]

\* the locks thread t holds
Held(t) == {ns \in Namespaces : threads.lock[ns] = t}

lockOthers == <<disk, search_hashmap, transcript_hashmap, io_faults, last,
                stored_search, stored_transcript, pipe, tts, sync, stitch, upload>>

\* One key per namespace: index tells whether the in-memory hashmap has it,
\* file whether its entry file exists, saved what the index file holds;
\* listed is what the glob of a get_stats call yielded.  The cache starts
\* with or without an entry in each namespace.
InitLocks ==
    /\ CacheInit /\ io_faults = FALSE
    /\ pipe = Idle /\ tts = Idle /\ sync = Idle /\ stitch = Idle /\ upload = Idle
    /\ \E entries \in [Namespaces -> BOOLEAN] :
          threads = [lock |-> [ns \in Namespaces |-> 0],
                     op |-> [t \in Threads |-> "none"],
                     pc |-> [t \in Threads |-> 0],
                     index |-> entries, file |-> entries, saved |-> entries,
                     listed |-> [t \in Threads |-> FALSE],
                     raised |-> [t \in Threads |-> "none"]]

\* a thread enters a cache method
Call(t, op) ==
    /\ threads.op[t] = "none"
    /\ threads' = [threads EXCEPT !.op[t] = op, !.pc[t] = 1]

\* with self.<namespace>_lock: entry (threading.Lock, not re-entrant)
Acquire(t) ==
    /\ Running(t) /\ Current(t).act = "acquire"
    /\ threads.lock[Current(t).ns] = 0
    /\ threads' = [threads EXCEPT !.lock[Current(t).ns] = t, !.pc[t] = @ + 1]

\* with self.<namespace>_lock: exit
Release(t) ==
    /\ Running(t) /\ Current(t).act = "release"
    /\ threads' = [threads EXCEPT !.lock[Current(t).ns] = 0, !.pc[t] = @ + 1]

\* a read or write of the hashmap or of the entry files
Access(t) ==
    /\ Running(t) /\ Current(t).act \notin {"acquire", "release"}
    /\ LET act == Current(t).act
           ns == Current(t).ns
       IN  threads' =
             CASE act = "check_index" ->
                    [threads EXCEPT !.pc[t] = IF threads.index[ns] THEN @ + 1 ELSE @ + 2]
               [] act = "write_file" -> [threads EXCEPT !.file[ns] = TRUE, !.pc[t] = @ + 1]
               [] act = "put_index" -> [threads EXCEPT !.index[ns] = TRUE, !.pc[t] = @ + 1]
               [] act = "save_index" ->
                    [threads EXCEPT !.saved[ns] = threads.index[ns], !.pc[t] = @ + 1]
               [] act = "unlink_files" -> [threads EXCEPT !.file[ns] = FALSE, !.pc[t] = @ + 1]
               [] act = "clear_index" -> [threads EXCEPT !.index[ns] = FALSE, !.pc[t] = @ + 1]
               [] act = "glob" ->
                    [threads EXCEPT !.listed[t] = threads.file[ns], !.pc[t] = @ + 1]
               [] act = "stat" ->
                    IF threads.listed[t] /\ ~threads.file[ns]
                    THEN [threads EXCEPT !.raised[t] = "FileNotFoundError",
                                         !.pc[t] = Len(GetStatsProgram) + 1]
                    ELSE [threads EXCEPT !.pc[t] = @ + 1]
               [] OTHER -> [threads EXCEPT !.pc[t] = @ + 1]

NextLocks ==
    \/ \E t \in Threads, op \in CacheOps : Call(t, op) /\ UNCHANGED lockOthers
    \/ \E t \in Threads : Acquire(t) /\ UNCHANGED lockOthers
    \/ \E t \in Threads : Release(t) /\ UNCHANGED lockOthers
    \/ \E t \in Threads : Access(t) /\ UNCHANGED lockOthers

SpecLocks == InitLocks /\ [][NextLocks]_vars

(***************************************************************************)
(* Two requests at a time writing generated media                          *)
(* (module-level services of app/api/v1/video.py, one output directory     *)
(*  per media kind)                                                        *)
(***************************************************************************)

Requests == {1, 2}

\* get_output_path(output_dir, filename)
get_output_path(output_dir, filename) == output_dir \o "/" \o filename

\* output_filename = f"scene_{scene.scene_number}.mp4"
ScenePath == get_output_path("./video_output", "scene_1.mp4")
\* output_filename = f"audio_scene_{scene.scene_number}.mp3"
AudioScenePath == get_output_path("./audio_output", "audio_scene_1.mp3")
StitchedPath == get_output_path("./video_output", "stitched_video.mp4")
FinalPath == get_output_path("./video_output", "final_video_with_audio.mp4")

MediaPaths == {ScenePath, AudioScenePath, StitchedPath, FinalPath}

\* the stages each endpoint runs, for one scene
StagesOf(kind) ==
    CASE kind = "generate_videos" -> <<"video">>
      [] kind = "generate_audio" -> <<"audio">>
      [] kind = "stitch_videos" -> <<"stitch">>
      [] kind = "sync_audio" -> <<"sync">>
      [] kind = "generate_video" -> <<"video", "audio", "stitch", "sync">>
      [] OTHER -> <<>>

RequestKinds ==
    {"generate_videos", "generate_audio", "stitch_videos", "sync_audio", "generate_video"}

\* what a request wrote: the request it was generated for
Artifact(r) == [request |-> r]

NotStarted == [kind |-> "none", pc |-> 0, returned |-> {}, status |-> 0, holds |-> <<>>]

InitRequests ==
    /\ CacheInit /\ io_faults = FALSE
    /\ pipe = [op |-> "requests", files |-> [p \in MediaPaths |-> None],
               req |-> [r \in Requests |-> NotStarted]]
    /\ tts = Idle /\ sync = Idle /\ stitch = Idle /\ upload = Idle /\ threads = Idle

\* request r is at a stage
AtStage(r, stage) ==
    /\ pipe.op = "requests"
    /\ pipe.req[r].status = 0
    /\ pipe.req[r].pc \in 1..Len(StagesOf(pipe.req[r].kind))
    /\ StagesOf(pipe.req[r].kind)[pipe.req[r].pc] = stage

\* the stage wrote its output file and hands the path back
Wrote(r, path) ==
    pipe' = [pipe EXCEPT !.files[path] = Some(Artifact(r)),
                         !.req[r].pc = @ + 1,
                         !.req[r].returned = @ \cup {path}]

\* the stage raised: the handler answers 500
Failed(r) == pipe' = [pipe EXCEPT !.req[r].status = 500, !.req[r].returned = {}]

\* a request arrives
ReqStart(r, kind) ==
    /\ pipe.op = "requests"
    /\ pipe.req[r].pc = 0
    /\ pipe' = [pipe EXCEPT !.req[r].kind = kind, !.req[r].pc = 1]

\* VeoService.generate_video: the clip is downloaded to scene_N.mp4
ReqVideo(r) == AtStage(r, "video") /\ Wrote(r, ScenePath)

\* AudioService.generate_audio: the speech is saved to audio_scene_N.mp3
ReqAudio(r) == AtStage(r, "audio") /\ Wrote(r, AudioScenePath)

\* VideoStitcher.stitch_videos: reads the clips, writes stitched_video.mp4
ReqStitch(r) ==
    /\ AtStage(r, "stitch")
    /\ IF IsNone(pipe.files[ScenePath]) THEN Failed(r) ELSE Wrote(r, StitchedPath)

\* AudioSync.sync_multiple_audio: reads video and audio, writes
\* final_video_with_audio.mp4
ReqSync(r) ==
    /\ AtStage(r, "sync")
    /\ IF IsNone(pipe.files[StitchedPath]) \/ IsNone(pipe.files[AudioScenePath])
       THEN Failed(r) ELSE Wrote(r, FinalPath)

\* the handler returns the response with the paths of its stages; holds is
\* what the files at these paths hold at that moment
ReqRespond(r) ==
    /\ pipe.op = "requests"
    /\ pipe.req[r].status = 0
    /\ pipe.req[r].pc = Len(StagesOf(pipe.req[r].kind)) + 1
    /\ pipe' = [pipe EXCEPT !.req[r].status = 200,
                            !.req[r].holds = [p \in pipe.req[r].returned |-> pipe.files[p]]]

NextRequests ==
    \/ \E r \in Requests, kind \in RequestKinds : ReqStart(r, kind) /\ UNCHANGED pipeOthers
    \/ \E r \in Requests : ReqVideo(r) /\ UNCHANGED pipeOthers
    \/ \E r \in Requests : ReqAudio(r) /\ UNCHANGED pipeOthers
    \/ \E r \in Requests : ReqStitch(r) /\ UNCHANGED pipeOthers
    \/ \E r \in Requests : ReqSync(r) /\ UNCHANGED pipeOthers
    \/ \E r \in Requests : ReqRespond(r) /\ UNCHANGED pipeOthers

SpecRequests == InitRequests /\ [][NextRequests]_vars

(***************************************************************************)
(* Knowledge-graph context from the third-party service                    *)
(* (src/backend/app/services/graphon_service.py)                           *)
(***************************************************************************)

\* most sources of one request
MaxSources == 2

\* longest answer of the service, in characters
MaxAnswerLen == 3

\* "x" is a character of plain prose; "F" and "J" are the fences
AnswerAlphabet == {"{", "}", "[", "]", "x", " ", "F", "J"}
AnswerTexts == UNION {[1..n -> AnswerAlphabet] : n \in 0..MaxAnswerLen}

\* a source: its type, its file_path and whether that file is on disk
SourceChoices ==
    {[type |-> S_pdf, file_path |-> Some("doc.pdf"), on_disk |-> TRUE],
     [type |-> S_video, file_path |-> Some("gone.mp4"), on_disk |-> FALSE],
     [type |-> S_image, file_path |-> None, on_disk |-> FALSE],
     [type |-> S_audio, file_path |-> Some("talk.mp3"), on_disk |-> TRUE]}
SourceLists == UNION {[1..n -> SourceChoices] : n \in 0..MaxSources}

EmptyGraphContext == [summary |-> <<>>, entities |-> <<>>, relations |-> <<>>]

\* _extract_json(text): unlike the snippet parsers, a missing closing fence
\* keeps the text to its end
_extract_json(text) ==
    LET s == Strip(text)
        cut(fences) ==
            LET start == FindFence(s, fences, 1) + 1
                end == FindFence(s, {"F", "J"}, start)
            IN  Strip(IF end = 0 THEN SubSeq(s, start, Len(s)) ELSE SubSeq(s, start, end - 1))
    IN  json_loads(IF FindFence(s, {"J"}, 1) # 0 THEN cut({"J"})
                   ELSE IF FindFence(s, {"F"}, 1) # 0 THEN cut({"F"})
                   ELSE s)

\* [s for s in sources if s.type in (PDF, VIDEO, IMAGE) and s.file_path]
FileSources(sources) ==
    SelectSeq(sources, LAMBDA s : s.type \in {S_pdf, S_video, S_image} /\ ~IsNone(s.file_path))

\* the paths of the file sources that exist on disk
FilePaths(file_sources) ==
    LET on_disk == SelectSeq(file_sources, LAMBDA s : s.on_disk)
    IN  [i \in 1..Len(on_disk) |-> on_disk[i].file_path.val]

\* A build_context that lets the decode failure of the answer out.
RaiseOnBadAnswer(raw_answer, uploaded) ==
    LET parsed == _extract_json(raw_answer)
    IN  IF parsed.raised # "none"
        THEN [raised |-> parsed.raised, ret |-> None, uploaded |-> uploaded, queried |-> TRUE]
        ELSE IF parsed.value # "dict"
        THEN [raised |-> "AttributeError", ret |-> None, uploaded |-> uploaded, queried |-> TRUE]
        ELSE [raised |-> "none", ret |-> Some(EmptyGraphContext), uploaded |-> uploaded,
              queried |-> TRUE]

\* the end of build_context: the answer becomes a GraphContext.  Over this
\* alphabet the only JSON object is {}; a JSON value that is no object has
\* no get().
ContextOfAnswer(raw_answer, uploaded) ==
    LET parsed == _extract_json(raw_answer)
    IN  IF parsed.raised # "none"
        THEN [raised |-> "none",
              ret |-> Some([summary |-> raw_answer, entities |-> <<>>, relations |-> <<>>]),
              uploaded |-> uploaded, queried |-> TRUE]
        ELSE IF parsed.value # "dict"
        THEN [raised |-> "AttributeError", ret |-> None, uploaded |-> uploaded, queried |-> TRUE]
        ELSE [raised |-> "none", ret |-> Some(EmptyGraphContext), uploaded |-> uploaded,
              queried |-> TRUE]

\* GraphonService.build_context(topic, sources)
build_context(api_key, client_installed, sources, upload_ok, raw_answer) ==
    LET file_paths == FilePaths(FileSources(sources))
        nothing(e, ret) == [raised |-> e, ret |-> ret, uploaded |-> <<>>, queried |-> FALSE]
    IN  IF ~api_key THEN nothing("ValueError", None)
        ELSE IF ~client_installed THEN nothing("ModuleNotFoundError", None)
        ELSE IF FileSources(sources) = <<>> THEN nothing("none", Some(EmptyGraphContext))
        ELSE IF file_paths = <<>> THEN nothing("none", Some(EmptyGraphContext))
        ELSE IF ~upload_ok THEN nothing("GraphonError", None)
        ELSE ContextOfAnswer(raw_answer, file_paths)

\* one call of build_context; without usable files the service is not asked
BuildContext ==
    \E api_key \in BOOLEAN, client_installed \in BOOLEAN, sources \in SourceLists,
       upload_ok \in BOOLEAN, raw_answer \in AnswerTexts :
       /\ (~api_key \/ ~client_installed \/ FilePaths(FileSources(sources)) = <<>> \/ ~upload_ok)
             => raw_answer = <<>>
       /\ (~api_key \/ ~client_installed \/ FilePaths(FileSources(sources)) = <<>>) => upload_ok
       /\ pipe' = [op |-> "build_context", api_key |-> api_key,
                   client_installed |-> client_installed, sources |-> sources,
                   upload_ok |-> upload_ok, raw_answer |-> raw_answer]
                  @@ build_context(api_key, client_installed, sources, upload_ok, raw_answer)

NextGraph == pipe = Idle /\ BuildContext /\ UNCHANGED pipeOthers

SpecGraph == InitPipeline /\ [][NextGraph]_vars

(***************************************************************************)
(* Claims on the file cache                                                *)
(***************************************************************************)

\* C1: a set followed by a get on the same logical key returns the stored
\* payload unchanged, whatever happened to other keys and to the other
\* namespace in between: every lookup answers with the payload of the last
\* set of exactly that (query, max_results) pair or video id, and with a miss
\* when that pair or id was not set (a different max_results is a miss).
ThmC1_SetGetRoundTrip ==
    /\ \A k \in SearchKeys : get_search_results(k[1], k[2]) = stored_search[k]
    /\ \A v \in VideoIds : get_transcript(v) = stored_transcript[v]
    /\ last.op = "get_search_results" => last.ret = stored_search[<<last.query, last.max_results>>]
    /\ last.op = "get_transcript" => last.ret = stored_transcript[last.video_id]

\* A lookup returned a stored search payload while the same query with the
\* other max_results is a miss and the transcript namespace holds entries too.
WitC1_HitAndMiss ==
    /\ last.op = "get_search_results"
    /\ last.ret = Some(<<"v1">>)
    /\ \E n \in MaxResultsSet : n # last.max_results /\ IsNone(get_search_results(last.query, n))
    /\ \E v \in VideoIds : get_transcript(v) = Some(<<"hello">>)

\* C2: a new FileCache constructed on the same cache directory reports the
\* same entry counts and answers every lookup as the discarded object did.
ThmC2_RestartPreserves ==
    [][last'.op = "restart" =>
          /\ get_stats' = get_stats
          /\ \A k \in SearchKeys : get_search_results(k[1], k[2])' = get_search_results(k[1], k[2])
          /\ \A v \in VideoIds : get_transcript(v)' = get_transcript(v)]_vars

\* The cache was rebuilt from a directory holding entries of both namespaces.
WitC2_RestartedWithEntries ==
    /\ last.op = "restart"
    /\ get_stats.search_entries > 0
    /\ get_stats.transcript_entries > 0

\* C3 (as claimed): every clear leaves zero entries in its namespace, a
\* second clear in a row leaves the same empty state, and the endpoint
\* answers with the success envelope each time.
ClearedNamespacesEmpty ==
    /\ last.op \in {"clear_search", "clear_all"} =>
          get_stats.search_entries = 0 /\ Glob(disk, SearchCacheDir) = {}
    /\ last.op \in {"clear_transcripts", "clear_all"} =>
          get_stats.transcript_entries = 0 /\ Glob(disk, TranscriptCacheDir) = {}

CexC3_ClearIdempotentSuccess ==
    [][last'.op \in {"clear_search", "clear_transcripts", "clear_all"} =>
          /\ ClearedNamespacesEmpty'
          /\ (last.op = last'.op =>
                  UNCHANGED <<disk, search_hashmap, transcript_hashmap>>)
          /\ last'.status = 200
          /\ last'.body.success = JBool(TRUE)]_vars

\* The part of C3 below the HTTP layer: FileCache.clear_* leaves no entry and
\* repeating it changes nothing.
ClearIdempotentOnCache ==
    [][last'.op \in {"clear_search", "clear_transcripts", "clear_all"} =>
          /\ ClearedNamespacesEmpty'
          /\ (last.op = last'.op =>
                  UNCHANGED <<disk, search_hashmap, transcript_hashmap>>)]_vars

(***************************************************************************)
(* Claims on transcript discovery                                          *)
(***************************************************************************)

\* C4: get_transcripts_batch returns exactly one VideoTranscript per input
\* id, in input order and carrying that id, however each id was resolved.
ThmC4_OnePerInputId ==
    last.op = "get_transcripts_batch" =>
        /\ Len(last.ret) = Len(last.video_ids)
        /\ \A i \in 1..Len(last.video_ids) : last.ret[i].video_id = last.video_ids[i]

\* A batch of two ids answered in full although one id had no transcript from
\* any source (fallback) and the other came from the cache.
WitC4_FallbackAndCacheHit ==
    /\ last.op = "get_transcripts_batch"
    /\ Len(last.video_ids) = 2
    /\ Len(last.ret) = 2
    /\ \E i, j \in 1..2 : last.how[i] = "fallback" /\ last.how[j] = "cache"
                          /\ last.video_ids[i] # last.video_ids[j]

(***************************************************************************)
(* Claims on scene generation and the video-only pipeline                  *)
(***************************************************************************)

ThmC6_SceneDurationForced ==
    (pipe.op = "generate_scenes" /\ pipe.ret.ok) =>
        /\ \A i \in 1..Len(pipe.ret.scenes) : pipe.ret.scenes[i].duration = pipe.scene_duration
        /\ pipe.ret.total_duration = Len(pipe.ret.scenes) * pipe.scene_duration
        /\ Len(pipe.ret.scenes) = Len(pipe.reported)

\* Two scenes came back although the provider reported other durations.
WitC6_ProviderDisagreed ==
    /\ pipe.op = "generate_scenes"
    /\ pipe.ret.ok
    /\ Len(pipe.ret.scenes) = 2
    /\ \A i \in 1..2 : pipe.reported[i] \notin {0, pipe.scene_duration}

(***************************************************************************)
(* Claims on text chunking                                                 *)
(***************************************************************************)

\* C7 (as claimed): _split_text(text, max_bytes) never returns a chunk whose
\* UTF-8 encoding is longer than max_bytes.
CexC7_ChunksWithinCeiling ==
    tts.op \in {"_split_text", "_generate_speech"} =>
        \A i \in 1..Len(tts.chunks) : ByteLen(tts.chunks[i]) <= tts.max_bytes

(***************************************************************************)
(* Claims on audio/video synchronisation                                   *)
(***************************************************************************)

\* C8: when the (combined) audio is strictly longer than the video the audio
\* set on the output has exactly the video's duration; when it is strictly
\* shorter it is attached unmodified; the output video keeps the input
\* video's duration in both cases.
ThmC8_TrimNeverPad ==
    (sync.op \in {"sync_audio", "sync_multiple_audio"} /\ sync.ok) =>
        /\ sync.loaded_audio.duration > sync.video_duration =>
              sync.final_clip.audio.val.duration = sync.video_duration
        /\ sync.loaded_audio.duration < sync.video_duration =>
              sync.final_clip.audio.val = sync.loaded_audio
        /\ sync.final_clip.audio.val.source = sync.loaded_audio.source
        /\ sync.duration = sync.video_duration

\* Two audio clips were combined into a track shorter than the video and
\* attached as they were.
WitC8_ShortCombinedAudio ==
    /\ sync.op = "sync_multiple_audio"
    /\ sync.ok
    /\ Len(sync.loaded_audio.source) = 2
    /\ sync.loaded_audio.duration < sync.video_duration
    /\ sync.final_clip.audio.val.duration < sync.duration

(***************************************************************************)
(* Claims on video stitching                                               *)
(***************************************************************************)

\* C9 (as claimed): every clip handed to the concatenation step is exactly
\* 1080 wide and 1920 high, whatever the resolution of the input clip.
CexC9_ClipsNormalised ==
    (stitch.op = "stitch_videos" /\ stitch.ok) =>
        \A i \in 1..Len(stitch.clips) : stitch.clips[i].w = 1080 /\ stitch.clips[i].h = 1920

\* What holds of the code: the height is always 1920, and the width is 1080
\* for every input at least as wide as 9:16.
StitchNormalisesWideClips ==
    (stitch.op = "stitch_videos" /\ stitch.ok) =>
        \A i \in 1..Len(stitch.clips) :
            /\ stitch.clips[i].h = 1920
            /\ (stitch.video_paths[i].size[1] * 1920) \div stitch.video_paths[i].size[2] >= 1080
                  => stitch.clips[i].w = 1080

(***************************************************************************)
(* Claims on the upload handler                                            *)
(***************************************************************************)

\* the rule of each upload type, on the declared MIME type m and the
\* lower-cased extension e
RuleSatisfied(type, m, e) ==
    \/ type = S_pdf /\ (Contains(m, S_pdf) \/ e = Ext(S_pdf))
    \/ type = S_image /\ (StartsWith(m, S_image \o <<"/">>)
                          \/ e \in {Ext(<<"j", "p", "g">>), Ext(<<"j", "p", "e", "g">>),
                                    Ext(<<"p", "n", "g">>), Ext(<<"g", "i", "f">>),
                                    Ext(<<"w", "e", "b", "p">>)})
    \/ type = S_audio /\ (StartsWith(m, S_audio \o <<"/">>)
                          \/ e \in {Ext(<<"m", "p", "3">>), Ext(<<"w", "a", "v">>),
                                    Ext(<<"o", "g", "g">>), Ext(<<"m", "4", "a">>)})
    \/ type = S_video /\ (StartsWith(m, S_video \o <<"/">>)
                          \/ e \in {Ext(<<"m", "p", "4">>), Ext(<<"w", "e", "b", "m">>),
                                    Ext(<<"o", "g", "g">>), Ext(<<"m", "o", "v">>)})

\* C10: upload_source stores a file and returns an UploadResponse only when
\* source_type (in any letter case) is one of pdf/image/audio/video and the
\* file's declared MIME type or its extension satisfies that type's rule;
\* otherwise (unrecognized type, the platform-video type, a file matching
\* neither rule) it answers 400 and writes no file under the uploads root.
ThmC10_UploadValidation ==
    upload.resp.op = "upload_source" =>
        LET r == upload.resp
            type == Lower(r.source_type)
            fits == /\ type \in {S_pdf, S_image, S_audio, S_video}
                    /\ RuleSatisfied(type, r.file.content_type,
                                     Lower(Suffix(r.file.filename)))
        IN  /\ (r.status = 200 \/ upload.files # upload.before) => fits
            /\ ~fits => (r.status = 400 /\ upload.files = upload.before)
            /\ r.status = 200 =>
                  /\ r.body.file_path \notin upload.before
                  /\ upload.files = upload.before \cup {r.body.file_path}
                  /\ r.body.file_path[2] = type

\* After a stored image, the same file declared as pdf and a file declared as
\* the platform-video type were both refused.
WitC10_StoredThenRefused ==
    /\ upload.resp.op = "upload_source"
    /\ upload.resp.status = 400
    /\ upload.resp.source_type \in {S_pdf, S_youtube}
    /\ upload.resp.file.filename = <<"p", "h", "o", "t", "o", ".", "p", "n", "g">>
    /\ \E p \in upload.files : p[2] = S_image

(***************************************************************************)
(* Claims on podcast search                                                *)
(***************************************************************************)

\* C11: when the search call returns zero video ids, search_podcasts returns
\* an empty list as a normal return, and the only platform call it made is
\* the search: the detailed-metadata call is not issued.
ThmC11_EmptySearchShortCircuit ==
    (last.op = "search_podcasts" /\ "video_ids" \in DOMAIN last /\ last.video_ids = <<>>) =>
        /\ last.raised = "none"
        /\ last.ret = <<>>
        /\ last.calls = <<"search.list">>

\* A search went to the platform, found nothing and returned, while an
\* earlier search had found a video and cached it.
WitC11_EmptySearchAfterHit ==
    /\ last.op = "search_podcasts"
    /\ "video_ids" \in DOMAIN last
    /\ last.video_ids = <<>>
    /\ last.how = "search"
    /\ search_hashmap # EmptyDict

(***************************************************************************)
(* Claims on the cache with failing file operations                        *)
(***************************************************************************)

\* C12: set_search_results and set_transcript never raise to their caller,
\* whichever step of the write fails, so search_podcasts, get_transcript and
\* get_transcripts_batch return the result they freshly obtained also when
\* the cache write failed.
ThmC12_CacheWritesBestEffort ==
    /\ (last.op = "search_podcasts" /\ "fresh" \in DOMAIN last) =>
          last.raised = "none" /\ last.ret = last.fresh
    /\ (last.op = "service_get_transcript" /\ last.how # "cache" /\ ~IsNone(last.fresh)) =>
          last.raised = "none" /\ last.ret = last.fresh
    /\ last.op = "get_transcripts_batch" =>
          /\ last.raised = "none"
          /\ Len(last.ret) = Len(last.video_ids)
          /\ \A i \in 1..Len(last.ret) : last.ret[i].transcript = last.fresh[i].val

\* A search returned the videos it had just found although the cache write
\* failed and nothing was cached.
WitC12_SearchReturnedDespiteFailedWrite ==
    /\ last.op = "search_podcasts"
    /\ last.write_failed
    /\ last.ret # <<>>
    /\ last.raised = "none"
    /\ search_hashmap = EmptyDict

\* C13: the multi-stage generate-video pipelines are all-or-nothing.  When a
\* stage raises, the services called are exactly the stages up to and
\* including that one, and the response is the 500 error envelope with
\* nothing but the detail; a 200 response is given only after every stage of
\* the pipeline was called and returned.
ThmC13_PipelineAllOrNothing ==
    /\ pipe.op = "generate_video_full" =>
          /\ pipe.status \in {200, 500}
          /\ pipe.status = 500 =>
                /\ pipe.body = Error500
                /\ \E k \in 1..Len(PipelineStages) :
                      /\ ~pipe.stage_ok[k]
                      /\ \A j \in 1..(k - 1) : pipe.stage_ok[j]
                      /\ pipe.calls = SubSeq(PipelineStages, 1, k)
          /\ pipe.status = 200 =>
                /\ \A k \in 1..Len(PipelineStages) : pipe.stage_ok[k]
                /\ pipe.calls = PipelineStages
    /\ pipe.op = "generate_video" =>
          /\ pipe.status \in {200, 500}
          /\ pipe.status = 500 =>
                /\ pipe.body = Error500
                /\ pipe.calls \in {SubSeq(PipelineStages, 1, k) : k \in 1..3}
          /\ pipe.status = 200 => pipe.calls = SubSeq(PipelineStages, 1, 3)

\* the full pipeline got through video generation and failed in audio
\* generation: stitching and synchronisation were never called
WitC13_FailedAtAudio ==
    /\ pipe.op = "generate_video_full"
    /\ pipe.status = 500
    /\ pipe.calls = SubSeq(PipelineStages, 1, 4)
    /\ pipe.stage_ok[5] /\ pipe.stage_ok[6]

\* C14: in both video-generation services, when the provider's completed
\* operation carries an operation-level error or no generated video,
\* generate_video raises, leaves no clip file behind and returns no
\* VideoScene.
ThmC14_NoClipFromFailedOperation ==
    (/\ pipe.op = "veo_generate_video"
     /\ pipe.operation.done
     /\ \/ pipe.operation.error
        \/ ~Truthy(pipe.operation.response)
        \/ pipe.operation.response.val = <<>>) =>
        /\ pipe.raised # "none"
        /\ pipe.files = {}
        /\ IsNone(pipe.ret)

\* the video service met an operation that completed with an error: it never
\* reads the error, and raises because the operation has no response
WitC14_VideoServiceOperationError ==
    /\ pipe.op = "veo_generate_video"
    /\ pipe.variant = "video-api"
    /\ pipe.operation.done /\ pipe.operation.error
    /\ pipe.raised = "ValueError"

\* C15: the independent-clip generate_videos, when it returns, returns
\* exactly one VideoScene per input scene, in input order, with the scene's
\* own number, duration and transcript text; every provider generation was
\* requested without a previous video; and total_duration is the sum of the
\* input scenes' durations.
ThmC15_OneIndependentClipPerScene ==
    (pipe.op = "veo_generate_videos" /\ pipe.raised = "none") =>
        LET r == pipe.ret.val
            n == Len(pipe.scenes)
        IN  /\ Len(r.video_scenes) = n
            /\ \A i \in 1..n :
                  /\ r.video_scenes[i].scene_number = pipe.scenes[i].scene_number
                  /\ r.video_scenes[i].duration = pipe.scenes[i].duration
                  /\ r.video_scenes[i].transcript_text = pipe.scenes[i].transcript_text
                  /\ r.video_scenes[i].file_path = "./video_output/" \o DefaultFilename(pipe.scenes[i])
            /\ Len(pipe.calls) = n
            /\ \A i \in 1..n : IsNone(pipe.calls[i].video)
            /\ r.total_duration = SumDurations(pipe.scenes)

\* two scenes of different durations, both generated
WitC15_TwoClipsForTwoScenes ==
    /\ pipe.op = "veo_generate_videos"
    /\ pipe.raised = "none"
    /\ Len(pipe.scenes) = 2
    /\ pipe.scenes[1].duration # pipe.scenes[2].duration
    /\ Len(pipe.ret.val.video_scenes) = 2
    /\ Cardinality(pipe.files) = 2

\* the voice the provider is to be called with: the server default when the
\* id is absent, blank or the word "default" in any letter case, else the
\* id trimmed
ExpectedVoice(voice_id, default) ==
    IF IsNone(voice_id) THEN default
    ELSE IF Strip(voice_id.val) = <<>> \/ Lower(Strip(voice_id.val)) = DefaultWord THEN default
    ELSE Strip(voice_id.val)

\* C16: wherever a caller supplies a voice id (voice_id_host1 / voice_id_host2
\* of /tts, voice_id of /generate-audio), "default" in any letter case and a
\* blank string mean no preference: the provider is called with the server's
\* default voice for that host, and any other value is passed on trimmed.
CexC16_VoiceIdNormalised ==
    /\ tts.op = "convert_to_speech" =>
          LET voice1 == ExpectedVoice(tts.voice_id_host1, DEFAULT_VOICE_HOST1)
              voice2 == ExpectedVoice(tts.voice_id_host2, DEFAULT_VOICE_HOST2)
          IN  tts.provider_voices =
                 IF tts.format = "single" THEN <<voice1>>
                 ELSE [i \in 1..Len(ScriptSpeakers) |->
                          IF ScriptSpeakers[i] = "HOST_1" THEN voice1 ELSE voice2]
    /\ tts.op = "generate_audio" =>
          tts.provider_voices = <<ExpectedVoice(tts.voice_id, DEFAULT_VOICE_ID)>>

\* the part of C16 the code keeps: /generate-audio of the podcast service
\* hands the speech service the normalised voice id
GenerateAudioNormalises ==
    (tts.op = "generate_audio" /\ tts.service = "backend") =>
        tts.provider_voices = <<ExpectedVoice(tts.voice_id, DEFAULT_VOICE_ID)>>

\* C17: between cache operations the in-memory key-to-hash index of each
\* namespace equals the content of that namespace's persisted index file,
\* also after operations in which a file write or a deletion failed.
CexC17_IndexMatchesFile ==
    /\ search_hashmap = _load_hashmap(disk, SearchHashmapFile)
    /\ transcript_hashmap = _load_hashmap(disk, TranscriptHashmapFile)

\* C18: every cache operation that reads or writes a namespace's index or
\* entry files (get, set, clear, get_stats) does so while holding that
\* namespace's lock, for its whole sequence of accesses; no operation holds
\* one namespace's lock while acquiring the other's; and the threads never
\* deadlock.
CexC18_AccessOnlyUnderLock ==
    /\ \A t \in Threads :
          (Running(t) /\ Current(t).act \notin {"acquire", "release"}) =>
              threads.lock[Current(t).ns] = t
    /\ \A t \in Threads :
          (Running(t) /\ Current(t).act = "acquire") => Held(t) = {}
    /\ (\E t \in Threads : Running(t)) =>
          \E t \in Threads :
             Running(t) /\ (Current(t).act = "acquire" => threads.lock[Current(t).ns] = 0)

\* the part of C18 the code keeps: get, set and clear touch a namespace only
\* under its lock, no thread holds both locks or takes one while holding the
\* other, and some running thread can always take its next step
LockedOperationsHoldLock ==
    /\ \A t \in Threads :
          (/\ Running(t)
           /\ threads.op[t] # "get_stats"
           /\ Current(t).act \notin {"acquire", "release"}) =>
              threads.lock[Current(t).ns] = t
    /\ \A t \in Threads : Cardinality(Held(t)) <= 1
    /\ \A t \in Threads :
          (Running(t) /\ Current(t).act = "acquire") => Held(t) = {}
    /\ (\E t \in Threads : Running(t)) =>
          \E t \in Threads :
             Running(t) /\ (Current(t).act = "acquire" => threads.lock[Current(t).ns] = 0)

\* what the missing lock costs (a reachable state): get_stats stats a file
\* that a concurrent clear unlinked after the glob, and raises
StatsRaisedOnUnlinkedFile == \E t \in Threads : threads.raised[t] = "FileNotFoundError"

\* C19: on a transcript-cache miss, get_transcript tries the page-scraping
\* method whenever the primary API delivers no transcript (transcripts
\* disabled or not found, or any other failure); it returns no value only
\* after both methods failed, never raises for that, and caches the text of
\* the method that succeeded.
CexC19_SecondaryAfterAnyPrimaryFailure ==
    (last.op = "service_get_transcript" /\ last.how # "cache") =>
        /\ last.raised = "none"
        /\ last.primary # "ok" => last.calls = <<"api", "timedtext">>
        /\ IsNone(last.ret) => (last.primary # "ok" /\ ~Truthy(last.secondary))
        /\ ~IsNone(last.ret) =>
              /\ last.ret = (IF last.primary = "ok" THEN last.fresh ELSE last.secondary)
              /\ get_transcript(last.video_id) = last.ret

\* the part of C19 the code keeps: the page-scraping method is tried after a
\* failure of the primary API other than disabled / not found, the text of
\* the method that succeeded is cached, and the call returns without raising
SecondaryAfterOtherFailure ==
    (last.op = "service_get_transcript" /\ last.how # "cache") =>
        /\ last.raised = "none"
        /\ last.primary = "error" =>
              /\ last.calls = <<"api", "timedtext">>
              /\ last.ret = (IF Truthy(last.secondary) THEN last.secondary ELSE None)
        /\ last.primary \in {"disabled", "not_found"} =>
              /\ last.calls = <<"api">>
              /\ IsNone(last.ret)
        /\ ~IsNone(last.ret) => get_transcript(last.video_id) = last.ret

\* the synthetic texts get_transcripts_batch can make for a video id: with
\* the title and description of the metadata lookup, or without them
FallbackTexts(video_id) ==
    {_generate_fallback_transcript(video_id, PlatformTitle(video_id), PlatformDescription(video_id)),
     _generate_fallback_transcript(video_id, "Video " \o video_id, <<>>)}

\* C20: when get_transcripts_batch cannot obtain a transcript for an id it
\* stores the synthetic fallback text in the transcript cache under that id;
\* while the cache holds a synthetic text for an id, every get_transcript or
\* get_transcripts_batch call for that id returns that same text from the
\* cache, without contacting the primary or the secondary source, and the
\* entry stays; only clearing the transcript cache ends this.
ThmC20_FallbackServedFromCache ==
    /\ [](last.op = "get_transcripts_batch" =>
             \A i \in 1..Len(last.video_ids) :
                last.how[i] = "fallback" =>
                   /\ last.ret[i].transcript \in FallbackTexts(last.video_ids[i])
                   /\ get_transcript(last.video_ids[i]) = Some(last.ret[i].transcript))
    /\ [][\A v \in VideoIds :
             LET held == get_transcript(v) IN
             (~IsNone(held) /\ held.val \in FallbackTexts(v)) =>
                /\ (last'.op = "service_get_transcript" /\ last'.video_id = v) =>
                      /\ last'.ret = held
                      /\ last'.how = "cache"
                      /\ last'.calls = <<>>
                /\ last'.op = "get_transcripts_batch" =>
                      \A i \in 1..Len(last'.video_ids) :
                         last'.video_ids[i] = v =>
                            /\ last'.how[i] = "cache"
                            /\ last'.ret[i].transcript = held.val
                /\ last'.op \in {"service_get_transcript", "get_transcripts_batch"} =>
                      CacheGet(disk', transcript_hashmap', TranscriptCacheDir, v,
                               "transcript", "none") = held]_vars

\* a single get_transcript answered from the cache with the synthetic text an
\* earlier batch had stored
WitC20_SyntheticTextFromCache ==
    /\ last.op = "service_get_transcript"
    /\ last.how = "cache"
    /\ last.calls = <<>>
    /\ ~IsNone(last.ret)
    /\ last.ret.val \in FallbackTexts(last.video_id)

CexC22_ReturnsDoneOrTimesOut ==
    (pipe.op = "_poll_operation" /\ pipe.pc \in {"returned", "raised"}) =>
        \/ pipe.pc = "returned" /\ pipe.done
        \/ pipe.raised = "TimeoutError"

\* C22 as amended: _poll_operation always ends: by returning an operation
\* that is done (in the podcast service: done without an error), by raising
\* a timeout failure, by raising a failure for a done operation that carries
\* an error (podcast service only), or by passing on the exception of a
\* status fetch.  An operation that is done at entry is handled without any
\* status fetch; otherwise the status is fetched once after each fixed
\* 10-second sleep; the timeout failure is raised at the first check, made
\* before a sleep, at which more than max_wait_time has elapsed without the
\* operation having been seen done; every failure aborts the enclosing
\* generate_videos call.
ThmC22_PollEnds ==
    /\ [](pipe.op = "_poll_operation" =>
             /\ pipe.pc = "returned" =>
                   (pipe.done /\ (pipe.variant = "backend" => ~pipe.error)
                    /\ pipe.caller = "continues")
             /\ pipe.pc = "raised" =>
                   /\ pipe.caller = "raised"
                   /\ pipe.raised \in {"TimeoutError", "RuntimeError", "ClientError"}
                   /\ pipe.raised = "TimeoutError" =>
                         (~pipe.done /\ pipe.elapsed > pipe.max_wait_time
                          /\ pipe.elapsed <= pipe.max_wait_time + PollInterval + MaxLatency)
                   /\ pipe.raised = "RuntimeError" =>
                         (pipe.variant = "backend" /\ pipe.done /\ pipe.error)
             /\ pipe.pc \in {"sleep", "fetch"} => ~pipe.done
             /\ pipe.pc = "sleep" => pipe.elapsed <= pipe.max_wait_time
             /\ pipe.done_at_entry => pipe.fetches = 0
             /\ pipe.sleeps = pipe.fetches + (IF pipe.pc = "fetch" THEN 1 ELSE 0)
             /\ pipe.elapsed >= PollInterval * pipe.sleeps
             /\ pipe.elapsed <= (PollInterval + MaxLatency) * pipe.sleeps)
    /\ (pipe.op = "_poll_operation") ~> (pipe.op = "_poll_operation" /\ pipe.pc \in {"returned", "raised"})

\* the default wait ran out on an operation that stayed pending
WitC22_TimedOutAfterDefaultWait ==
    /\ pipe.op = "_poll_operation"
    /\ pipe.raised = "TimeoutError"
    /\ pipe.max_wait_time = DefaultMaxWait
    /\ pipe.fetches * PollInterval >= DefaultMaxWait - PollInterval

\* C23: the chaining generate_videos raises for an empty list; a call that
\* returns for n scenes issued exactly n provider generations in scene order,
\* the first with no input video and the k-th with the file handle produced
\* by generation k-1, and for n >= 2 returns exactly one VideoScene, the last
\* one produced, renumbered to scene 1, with total_duration the sum of all n
\* scene durations; a generation that produced no file handle makes the call
\* raise before the next generation is issued.
ThmC23_ChainedGenerations ==
    pipe.op = "backend_generate_videos" =>
        LET scenes == pipe.scenes
            n == Len(scenes)
            handle(k) == pipe.operations[k].response.val[1]
        IN  /\ scenes = <<>> => (pipe.raised = "ValueError" /\ pipe.calls = <<>>)
            /\ Len(pipe.calls) <= n
            /\ \A k \in 1..Len(pipe.calls) :
                  /\ pipe.calls[k].prompt = scenes[k].transcript_text
                  /\ k = 1 => pipe.calls[k].video = None
                  /\ k > 1 => pipe.calls[k].video = Some("file_" \o ToString(k - 1))
            /\ pipe.raised = "none" =>
                  /\ Len(pipe.calls) = n
                  /\ Len(pipe.ret.val.video_scenes) = 1
                  /\ pipe.ret.val.total_duration = SumDurations(scenes)
                  /\ n >= 2 =>
                        /\ pipe.ret.val.video_scenes[1].scene_number = 1
                        /\ pipe.ret.val.video_scenes[1].file_path
                              = "./video_output/" \o ExtendedFilename(scenes[n])
                        /\ pipe.ret.val.video_scenes[1].duration = scenes[n].duration
            /\ \A k \in 1..(n - 1) :
                  (Len(pipe.calls) >= k /\ Truthy(pipe.operations[k].response)
                     /\ handle(k) = NoVideo) =>
                        (pipe.raised # "none" /\ Len(pipe.calls) = k)

\* two scenes, two generations, the second extending the first
WitC23_SecondExtendsFirst ==
    /\ pipe.op = "backend_generate_videos"
    /\ pipe.raised = "none"
    /\ Len(pipe.scenes) = 2
    /\ Len(pipe.calls) = 2
    /\ pipe.calls[2].video = Some("file_1")
    /\ pipe.ret.val.total_duration = 13

\* the first generation returned a clip without a file handle
NoHandleRaised ==
    /\ pipe.op = "backend_generate_videos"
    /\ pipe.raised = "ValueError"
    /\ Len(pipe.calls) = 1
    /\ Len(pipe.scenes) = 2
    /\ pipe.files # {}

\* C24: generate_audio of both speech providers speaks a single-host script
\* as one text unit, the flattened full_script, with host 1's voice, whatever
\* the segments are; for a two-host script the audio is the per-segment
\* audio in segment order, every HOST_1 segment spoken with host 1's voice
\* and every HOST_2 segment with host 2's voice.
ThmC24_ScriptAudioByFormat ==
    tts.op = "script_generate_audio" =>
        LET script == tts.script
            defaults == ProviderDefaults(tts.provider)
            host1 == IF tts.voice_id_host1 \in {None, Some(<<>>)} THEN defaults[1]
                     ELSE tts.voice_id_host1.val
            host2 == IF tts.voice_id_host2 \in {None, Some(<<>>)} THEN defaults[2]
                     ELSE tts.voice_id_host2.val
        IN  /\ script.format = "single" =>
                  tts.audio = <<[text |-> script.full_script, voice |-> host1]>>
            /\ script.format = "two_hosts" =>
                  /\ Len(tts.audio) = Len(script.segments)
                  /\ \A i \in 1..Len(script.segments) :
                        /\ tts.audio[i].text = script.segments[i].text
                        /\ script.segments[i].speaker = "HOST_1" => tts.audio[i].voice = host1
                        /\ script.segments[i].speaker = "HOST_2" => tts.audio[i].voice = host2

\* a two-host script whose second segment is HOST_2's, spoken by the
\* provider's default second voice
WitC24_SecondSegmentSecondVoice ==
    /\ tts.op = "script_generate_audio"
    /\ tts.provider = "google"
    /\ tts.script.format = "two_hosts"
    /\ Len(tts.script.segments) = 2
    /\ tts.script.segments[2].speaker = "HOST_2"
    /\ tts.voice_id_host2 = None
    /\ Len(tts.audio) = 2
    /\ tts.audio[2].voice = GOOGLE_DEFAULT_VOICE_HOST2

\* C25: when the provider answer does not decode, the extractor that relies
\* on prompt instructions alone repairs it and parses once more, so that an
\* answer the repair completes to a JSON object does not make it fail, while
\* the schema-constrained extractor fails at once on every answer that does
\* not decode.
CexC25_PromptOnlyExtractorRepairs ==
    pipe.op = "extract_snippets" =>
        LET json_str == ExtractJsonStr(pipe.response_text)
        IN  /\ (~pipe.response_schema /\ json_loads(json_str).raised # "none"
                  /\ json_loads(Repair(json_str)).value = "dict") => pipe.raised = "none"
            /\ (pipe.response_schema /\ json_loads(pipe.response_text).raised # "none")
                  => pipe.raised = "JSONDecodeError"

\* Neither extractor recovers from an answer that does not decode: both fail
\* on the first decode failure.
BothExtractorsFailAtOnce ==
    pipe.op = "extract_snippets" =>
        LET json_str == IF pipe.response_schema THEN pipe.response_text
                        ELSE ExtractJsonStr(pipe.response_text)
        IN  json_loads(json_str).raised # "none" =>
               pipe.raised = (IF pipe.response_schema THEN "JSONDecodeError" ELSE "ValueError")

\* the repair completes a cut-off answer when _parse_json_response of the
\* podcast service is called on its own
RepairRecoversCutOffAnswer ==
    /\ pipe.op = "_parse_json_response"
    /\ pipe.response_text = <<"[", "\"", " ">>
    /\ pipe.raised = "none"

\* C26: for any interleaving of two concurrent video-generation,
\* audio-generation, stitching or sync requests, the file at every path
\* returned in a response holds the artifact generated for that same request.
CexC26_ReturnedPathsHoldOwnArtifact ==
    pipe.op = "requests" =>
        \A r \in Requests :
            pipe.req[r].status = 200 =>
                \A p \in pipe.req[r].returned : pipe.req[r].holds[p] = Some(Artifact(r))

\* What does hold: alone, a request is answered with paths to its own artifacts.
AloneOwnArtifacts ==
    pipe.op = "requests" =>
        \A r \in Requests :
            (pipe.req[r].status = 200 /\ \A o \in Requests \ {r} : pipe.req[o].pc = 0) =>
                \A p \in pipe.req[r].returned : pipe.req[r].holds[p] = Some(Artifact(r))

\* no pdf, video or image source of the call has its file on disk
NoSourceFile ==
    \A i \in 1..Len(pipe.sources) :
        ~(pipe.sources[i].type \in {S_pdf, S_video, S_image} /\ pipe.sources[i].on_disk)

\* C27 as stated: build_context never fails because the answer is not JSON
\* (the raw answer becomes the summary, with no entities and no relations),
\* and when no listed pdf/video/image source has a file on disk it returns
\* an empty GraphContext without uploading or querying.
CexC27_EmptyContextWithoutFiles ==
    pipe.op = "build_context" =>
        /\ (pipe.queried /\ _extract_json(pipe.raw_answer).raised # "none") =>
              (pipe.raised = "none"
               /\ pipe.ret = Some([summary |-> pipe.raw_answer, entities |-> <<>>,
                                   relations |-> <<>>]))
        /\ NoSourceFile =>
              (pipe.raised = "none" /\ pipe.ret = Some(EmptyGraphContext)
               /\ pipe.uploaded = <<>> /\ ~pipe.queried)

\* C27 as amended: with the service's API key configured and its client
\* library installed, build_context returns an empty GraphContext without
\* uploading or querying when no listed pdf/video/image source has a file on
\* disk; without the key or the library it fails before looking at the
\* sources, also without uploading or querying.  It never fails because the
\* answer is not JSON: the raw answer becomes the summary, with no entities
\* and no relations.
ThmC27_GracefulContext ==
    pipe.op = "build_context" =>
        /\ (pipe.queried /\ _extract_json(pipe.raw_answer).raised # "none") =>
              (pipe.raised = "none"
               /\ pipe.ret = Some([summary |-> pipe.raw_answer, entities |-> <<>>,
                                   relations |-> <<>>]))
        /\ (NoSourceFile /\ pipe.api_key /\ pipe.client_installed) =>
              (pipe.raised = "none" /\ pipe.ret = Some(EmptyGraphContext)
               /\ pipe.uploaded = <<>> /\ ~pipe.queried)
        /\ ~pipe.api_key => (pipe.raised = "ValueError" /\ pipe.uploaded = <<>> /\ ~pipe.queried)
        /\ (pipe.api_key /\ ~pipe.client_installed) =>
              (pipe.raised = "ModuleNotFoundError" /\ pipe.uploaded = <<>> /\ ~pipe.queried)

\* a prose answer inside an unclosed fence, returned as the summary
WitC27_ProseAnswerAsSummary ==
    /\ pipe.op = "build_context"
    /\ pipe.queried
    /\ pipe.raw_answer = <<"J", "x", "x">>
    /\ pipe.raised = "none"
    /\ pipe.ret.val.summary = <<"J", "x", "x">>
    /\ pipe.uploaded = <<"doc.pdf">>

\* no usable file: nothing uploaded, nothing asked
NoFilesNoUpload ==
    /\ pipe.op = "build_context"
    /\ Len(pipe.sources) = 2
    /\ NoSourceFile
    /\ pipe.ret = Some(EmptyGraphContext)

\* C28: the search cache is keyed by query and max_results only, not by
\* language: a search_podcasts call that finds an entry under its query and
\* max_results, whatever language wrote it, returns the cached list without
\* any provider call and leaves the cache as it is; in particular a call
\* that directly follows one with the same query and max_results and another
\* language, which cached its result, returns that same list.  An entry
\* stays until the search cache is cleared.
ThmC28_SearchCacheIgnoresLanguage ==
    /\ [](last.op = "search_podcasts" =>
             /\ last.how = "cache" => (last.calls = <<>> /\ last.raised = "none")
             /\ (/\ last.previous # Idle
                 /\ last.previous.query = last.query
                 /\ last.previous.max_results = last.max_results
                 /\ last.previous.language # last.language
                 /\ last.previous.how = "search"
                 /\ last.previous.ret # <<>>)
                => (last.how = "cache" /\ last.ret = last.previous.ret))
    /\ [][\A q \in Queries, n \in MaxResultsSet :
             LET cached_results == get_search_results(q, n)
             IN  ~IsNone(cached_results) =>
                    /\ (last'.op = "search_podcasts" /\ last'.query = q /\ last'.max_results = n)
                          => /\ last'.how = "cache"
                             /\ last'.calls = <<>>
                             /\ last'.ret = [i \in 1..Len(cached_results.val) |->
                                                VideoInfo(cached_results.val[i])]
                    /\ last'.op # "clear_search" => get_search_results(q, n)' = cached_results]_vars

\* a Spanish-language request answered from the entry an English-language
\* request wrote
WitC28_OtherLanguageServedFromCache ==
    /\ last.op = "search_podcasts"
    /\ last.language = "es"
    /\ last.how = "cache"
    /\ last.ret # <<>>
    /\ last.previous # Idle
    /\ last.previous.language = "en"
    /\ last.previous.how = "search"
    /\ last.previous.query = last.query
    /\ last.previous.max_results = last.max_results

\* C29: every scene submitted to the video-generation provider carries a
\* duration no greater than the maximum scene duration of 8 seconds, in the
\* video-only pipeline of the podcast service and in the full pipeline of
\* the video service.
CexC29_SubmittedDurationWithinMaximum ==
    /\ pipe.op = "generate_video" =>
          \A i \in 1..Len(pipe.veo_input) : pipe.veo_input[i].duration <= max_scene_duration
    /\ (pipe.op = "generate_video_full" /\ pipe.status = 200) =>
          \A i \in 1..Len(pipe.body.scenes) : pipe.body.scenes[i].duration <= max_scene_duration

\* What does hold: the full pipeline of the video service submits 8-second
\* scenes only.
FullPipelineWithinMaximum ==
    (pipe.op = "generate_video_full" /\ pipe.status = 200) =>
        \A i \in 1..Len(pipe.body.scenes) : pipe.body.scenes[i].duration = max_scene_duration

\* C30: between cache operations every key of a namespace's in-memory index
\* has its hash-named entry file on disk, also after writes and deletions
\* that failed part-way, so that get_stats() counts no entry whose lookup
\* would be a miss.
CexC30_IndexedKeysHaveFiles ==
    /\ \A k \in DOMAIN search_hashmap :
          EntryFile(SearchCacheDir, search_hashmap[k]) \in DOMAIN disk
    /\ \A v \in DOMAIN transcript_hashmap :
          EntryFile(TranscriptCacheDir, transcript_hashmap[v]) \in DOMAIN disk
    /\ get_stats.search_entries
          = Cardinality({k \in DOMAIN search_hashmap :
                            EntryFile(SearchCacheDir, search_hashmap[k]) \in DOMAIN disk
                            /\ disk[EntryFile(SearchCacheDir, search_hashmap[k])].valid})
    /\ get_stats.transcript_entries
          = Cardinality({v \in DOMAIN transcript_hashmap : ~IsNone(get_transcript(v))})

====
